---- MODULE Spec2Model ----
(***************************************************************************)
(* karl-chat: the RAG backend's readiness state machine.                   *)
(*                                                                         *)
(* Two of the repository's server programs are modelled:                   *)
(*   "Server"        backend/Server.js (hierarchical configuration),       *)
(*                   src/unnamed/part_000 lines 650-1176;                  *)
(*   "LegacyServer"  the single-file server with POST /api/add-urls,       *)
(*                   src/unnamed/part_002 lines 1-278.                     *)
(* A behaviour runs one of them (variable program).  Node runs one         *)
(* callback at a time, so one action is one turn of the event loop: a      *)
(* handler from its entry to its first await on I/O, or the resumption of  *)
(* an await up to the next one.  Awaits that need no I/O (the guard's      *)
(* early return, splitDocuments) continue in the same turn.  Every         *)
(* external call (chat model, page loader, Neo4j) may succeed or throw.    *)
(* Requests are handled only once the server listens; in Server the        *)
(* listen callback has by then called initializeRAG, which sets chatModel  *)
(* before its first await.  LegacyServer starts turn by turn as well: the  *)
(* load of the file reads the settings of its ./config module (with the    *)
(* repository's config.js, whose loadConfig() returns nothing, the load    *)
(* throws and nothing is served), then come one turn per page load and     *)
(* the store call.  The SIGINT handler of either server can run between    *)
(* any two turns: it waits for vectorstore.close() when there is a store,  *)
(* the server still taking requests, and ends the process.                 *)
(*                                                                         *)
(* The configuration loader is a third program:                            *)
(*   "ConfigLoader"  backend/config.js, src/unnamed/part_001 lines 1-214.  *)
(* Its sources are the config.json files of the directories above          *)
(* __dirname, the two files of ../configs and process.env.  The merge      *)
(* treats each key on its own, so in one behaviour the sources write one   *)
(* key (cfgKey); the values they write name the source they come from.     *)
(* Spec runs the servers, FairSpec runs Server with every awaited call of  *)
(* initializeRAG returning, ConfigSpec loads and reloads the settings map  *)
(* while files and variables are removed, QuerySpec reads a loaded map.    *)
(*                                                                         *)
(* Functions that are called on their own run as the program "Functions"   *)
(* (variable call): ParseSpec parses a raw response of the chat model with *)
(* parseThinkingResponse and parses the result's response again; CleanSpec *)
(* cleans the metadata of a chunk, once as initializeRAG does it and once  *)
(* with Neo4jUtils.cleanDocumentMetadata; UtilsSpec adds the functions of  *)
(* Neo4jUtils that open a driver, several calls at once and one awaited    *)
(* driver call per step, with what they write to the log;                  *)
(* PromptSpec builds the prompt of a chat request with                     *)
(* createThinkingPrompt; SecretSpec loads the settings map from two sets   *)
(* of sources that differ in one secret and serves getSafeConfig of both.  *)
(*                                                                         *)
(* SettingsSpec loads Server.js with its settings map and runs the         *)
(* server's turns (the listen callback, POST /api/initialize and the       *)
(* awaits of initializeRAG, GET /api/health) while the sources change and  *)
(* POST /api/config/reload reloads the map; each turn records the options  *)
(* it builds from the constants read at load.  AppSpec is the 'Without RAG'*)
(* panel of the React page (program "App", src/unnamed/part_001 lines      *)
(* 372-640): typing, the Ask button, the Enter key and the arrival of      *)
(* responses in any order.                                                 *)
(***************************************************************************)
EXTENDS Integers, Sequences, FiniteSets, TLC

\* ---------------------------------------------------------------- bounds
NumUrls == 2            \* URLs of one ingestion batch
MaxChunksPerDoc == 1    \* chunks the splitter makes of one page (0: empty text)
MaxRequests == 2        \* Server: HTTP requests in flight at once
MaxAdders == 1          \* LegacyServer: POST /api/add-urls requests in flight at once
MaxCount == 2           \* saturation of the observation counters
MaxDepth == 2           \* ConfigLoader: directories above __dirname (its distance from the root)
MaxTextLen == 4         \* parseThinkingResponse: pieces of a raw response
MaxContent == 2         \* metadata cleaning: characters of a chunk's pageContent
MaxRetrieved == 2       \* chunks the retriever returns for one question
MaxSubmissions == 2     \* App: before-rag requests the user sends
MaxCalls == 2           \* Neo4jUtils: calls of its functions in flight at once

\* ------------------------------------------------------------- constants
RetrieverK == 4
\* const urls = [...] of the single-file server: three pages
LegacyUrls == 3

\* Object references are records, so that null compares with every object.
NULL == [kind |-> "null"]
ChatOllama == [kind |-> "ChatOllama"]
\* initializationError is null or a message string.
NoError == "null"

ErrNoDocs == "No documents were successfully loaded from URLs"
ErrInternal == "Internal server error"
ErrNoDocsLegacy == "No documents were successfully loaded"
ErrStore == "the error Neo4jVectorStore.fromDocuments threw"
ErrNoConfig == "TypeError: Cannot read properties of undefined (reading 'OLLAMA_HOST')"
MsgAlready == "RAG system already initialized"
MsgInitialized == "RAG system initialized successfully"
MsgTopicRequired == "Topic is required"
MsgQuestionRequired == "Question is required"
MsgChatNotInit == "Chat model not initialized"
MsgRagNotInit == "RAG system not initialized"
MsgUrlsRequired == "URLs array is required"
MsgVsNotInit == "Vector store not initialized"
MsgOk == "ok"
NoMsg == "-"

Min(a, b) == IF a < b THEN a ELSE b

Auto == 0
Requests == 1..MaxRequests
Callers == {Auto} \cup Requests
Adders == 1..Min(MaxAdders, MaxRequests)

\* What a page load can do: throw, or give one document whose text the
\* splitter cuts into `chunks` chunks.
LoadFailed == [ok |-> FALSE, chunks |-> 0]
Outcomes == {LoadFailed} \cup {[ok |-> TRUE, chunks |-> k] : k \in 0..MaxChunksPerDoc}

\* Values of a required request field: absent, empty string, a text.
Fields == {"undefined", "", "text"}

VARIABLES
    program,              \* which server file is running
    phase,                \* "boot", "serving" (listening), "closing" (SIGINT handler waiting
                          \* for vectorstore.close()), "exited" (process.exit), "crashed"
                          \* (the module threw while it was loaded)
    vectorstore,          \* part_000:694 (part_002:29)
    retriever,            \* part_000:695 (part_002:30)
    chatModel,            \* part_000:696 (part_002:31)
    isInitializing,       \* part_000:697
    initializationError,  \* part_000:698
    req,                  \* per caller: the locals of its handler / of its initializeRAG run
    last,                 \* the turn just taken: what it answered, and the locals it ended with
    populated,            \* successful Neo4jVectorStore.fromDocuments calls (saturating)
    failedRuns,           \* initializeRAG runs that threw (saturating)
    ollamaTested,         \* the connection test has succeeded once
    files,                \* the config files on disk that ConfigLoader looks for (part_001:59-113)
    env,                  \* process.env (part_001:118-141)
    cfgKey,               \* the settings key the sources of this run write
    cfgPhase,             \* "off", "new" (module not loaded yet), "loaded" (singleton constructed)
    config,               \* this.config (part_001:8)
    cfgOut,               \* the ConfigLoader call just made: its arguments and what it returned
    call                  \* a call of a function of its own: its name, argument and result

srvVars == <<program, phase, vectorstore, retriever, chatModel, isInitializing,
             initializationError, req, last, populated, failedRuns, ollamaTested>>
cfgVars == <<files, env, cfgKey, cfgPhase, config, cfgOut>>
fnVars == <<call>>
vars == <<srvVars, cfgVars, fnVars>>

\* The process runs and its server takes requests: from the listen callback
\* (or the end of the single-file server's start) to process.exit, the wait
\* of the SIGINT handler for vectorstore.close() included.
Listening == phase \in {"serving", "closing"}

\* The module state a handler sees when it starts.
Snapshot ==
    [chatModel |-> chatModel, vectorstore |-> vectorstore, retriever |-> retriever,
     isInitializing |-> isInitializing, initializationError |-> initializationError,
     tested |-> ollamaTested]

NoSnap ==
    [chatModel |-> NULL, vectorstore |-> NULL, retriever |-> NULL,
     isInitializing |-> FALSE, initializationError |-> NoError, tested |-> FALSE]

Idle ==
    [op |-> "none", pc |-> "idle", n |-> 0, i |-> 0,
     fetched |-> <<>>, docs |-> <<>>, errors |-> <<>>,
     splitCalled |-> FALSE, storeCalled |-> FALSE, chunks |-> 0,
     field |-> "undefined", entry |-> NoSnap,
     retrieverCalls |-> 0, chatCalls |-> 0,
     query |-> "undefined", retrieved |-> <<>>, context |-> <<>>,
     options |-> [kind |-> "none"]]

\* ev: the turn; status: the HTTP status sent in it (0: none sent);
\* init: what became of an initializeRAG call in it; ok: whether the awaited
\* external call succeeded; r: the handler's locals at the end of the turn.
Event(ev, c, status, msg, init, ok, r) ==
    [ev |-> ev, caller |-> c, status |-> status, msg |-> msg, init |-> init,
     ok |-> ok, r |-> r]

\* ------------------------------------------- ConfigLoader: its data

\* const maxLevels = 5
MaxLevels == 5
\* constructor(moduleName = 'karl-chat')
ModuleName == "karl-chat"

\* A JavaScript value: its type and its text.  The text of a value a source
\* wrote names the source, so that the origin of a resolved value can be read.
Str(s) == [t |-> "string", s |-> s]
Num(s) == [t |-> "number", s |-> s]
Bool(s) == [t |-> "boolean", s |-> s]
JsNull == [t |-> "null", s |-> "null"]
Undefined == [t |-> "undefined", s |-> "undefined"]
\* The value of the key 'karl-chat' of a parsed file: its module section.
SectionOf(name, section) == [t |-> "object", s |-> name, entries |-> section]
\* The falsy values a JSON file can hold.
FalsyValues == {Str(""), Num("0"), Bool("false"), JsNull}

\* An object used as a map: a function from its own keys to their values.
EmptyMap == [k \in {} |-> Undefined]
One(k, v) == [x \in {k} |-> v]

\* A config file as fs.existsSync and JSON.parse see it: absent, not parseable,
\* or an object with top-level keys and, possibly, a 'karl-chat' section.
Absent(name) ==
    [name |-> name, status |-> "absent", top |-> EmptyMap, hasSection |-> FALSE,
     section |-> EmptyMap]
Malformed(name) == [Absent(name) EXCEPT !.status = "malformed"]
Parsed(name, top, hasSection, section) ==
    [name |-> name, status |-> "ok", top |-> top, hasSection |-> hasSection,
     section |-> section]

\* <dir>/config.json of the level-th directory above __dirname.
ParentNames == <<"P1", "P2", "P3", "P4", "P5", "P6">>
TopText == <<"P1.top", "P2.top", "P3.top", "P4.top", "P5.top", "P6.top">>
SectionText == <<"P1.karl-chat", "P2.karl-chat", "P3.karl-chat", "P4.karl-chat",
                 "P5.karl-chat", "P6.karl-chat">>

\* What <dir>/config.json of a level can be when it writes at most the key k.
ParentFiles(k, level) ==
    LET name == ParentNames[level] IN
    {Absent(name), Malformed(name)} \cup
    {Parsed(name, top, sec # EmptyMap, sec) :
        top \in {EmptyMap, One(k, Str(TopText[level]))},
        sec \in {EmptyMap, One(k, Str(SectionText[level]))}}

\* What a file of ../configs can be when it writes at most the key k with a
\* value of vals.
LocalFiles(k, name, vals) ==
    {Absent(name), Malformed(name), Parsed(name, EmptyMap, FALSE, EmptyMap)} \cup
    {Parsed(name, One(k, v), FALSE, EmptyMap) : v \in vals}

\* Before the module is loaded, and in the runs that leave it out.
NoFiles ==
    [parents |-> <<Absent("P1")>>, staticSettings |-> Absent("static_settings.JSON"),
     configsConfig |-> Absent("configs/config.json")]
NoOut ==
    [op |-> "none", key |-> "-", dflt |-> Undefined, value |-> Undefined, ok |-> TRUE,
     missing |-> {}, before |-> EmptyMap, safe |-> EmptyMap, fresh |-> FALSE,
     unchanged |-> FALSE]
NoEnv == [n \in {} |-> ""]

ConfigOff ==
    /\ files = NoFiles
    /\ env = NoEnv
    /\ cfgKey = "-"
    /\ cfgPhase = "off"
    /\ config = EmptyMap
    /\ cfgOut = NoOut

\* No function is called on its own.
NoCall == [fn |-> "none"]
FunctionsOff == call = NoCall

\* The module variables of the server files as their declarations leave them.
ModuleLoaded ==
    /\ phase = "boot"
    /\ vectorstore = NULL
    /\ retriever = NULL
    /\ chatModel = NULL
    /\ isInitializing = FALSE
    /\ initializationError = NoError
    /\ req = [c \in Callers |-> Idle]
    /\ last = Event("boot", Auto, 0, NoMsg, "none", TRUE, Idle)
    /\ populated = 0
    /\ failedRuns = 0
    /\ ollamaTested = FALSE

Init ==
    /\ program \in {"Server", "LegacyServer"}
    /\ ModuleLoaded
    /\ ConfigOff
    /\ FunctionsOff

\* if (v), !v
TruthyValue(v) ==
    ~ \/ v.t \in {"undefined", "null"}
      \/ v.t = "string" /\ v.s = ""
      \/ v.t = "number" /\ v.s \in {"0", "NaN"}
      \/ v.t = "boolean" /\ v.s = "false"

\* getDefaults()
GetDefaults ==
    [k \in {"OLLAMA_HOST", "OLLAMA_PORT", "DEFAULT_MODEL", "NEO4J_URI", "NEO4J_USERNAME",
            "NEO4J_PASSWORD", "SERVER_PORT", "CORS_ORIGIN", "LOG_LEVEL"} |->
        CASE k = "OLLAMA_HOST" -> Str("localhost")
          [] k = "OLLAMA_PORT" -> Str("11434")
          [] k = "DEFAULT_MODEL" -> Str("llama3.2")
          [] k = "NEO4J_URI" -> Str("bolt://localhost:7687")
          [] k = "NEO4J_USERNAME" -> Str("neo4j")
          [] k = "NEO4J_PASSWORD" -> Str("password")
          [] k = "SERVER_PORT" -> Num("5000")
          [] k = "CORS_ORIGIN" -> Str("http://localhost:3000")
          [] k = "LOG_LEVEL" -> Str("info")]

\* obj[key]
Lookup(obj, key) == IF key \in DOMAIN obj THEN obj[key] ELSE Undefined

\* Variant: this.config[key] || defaultValue
GetOr(cfg, key, dflt) ==
    IF TruthyValue(Lookup(cfg, key)) THEN Lookup(cfg, key) ELSE dflt
\* get(key, defaultValue)
Get(cfg, key, dflt) ==
    IF Lookup(cfg, key) # Undefined THEN Lookup(cfg, key) ELSE dflt

\* The settings Server.js reads into constants when it is loaded and uses
\* to reach the model and the database.
ConnectionKeys ==
    {"OLLAMA_HOST", "OLLAMA_PORT", "DEFAULT_MODEL", "NEO4J_URI", "NEO4J_USERNAME",
     "NEO4J_PASSWORD"}

\* The texts an environment variable is given after the server has started.
UriWithCredentials == "bolt://neo4j:pw@db:7687"
EnvTexts == {"", "reloaded", UriWithCredentials}

\* NEO4J_URI.replace(/\/\/.*@/, '//***@')
HideCredentials(v) ==
    IF v = Str(UriWithCredentials) THEN Str("bolt://***@db:7687") ELSE v

\* The constants of a server that is run without its settings: the defaults.
DefaultConstants == [k \in ConnectionKeys |-> GetDefaults[k]]

\* Variant: a setting is read from the settings map when it is used.
SettingNow(constants, cfg, key) == Get(cfg, key, Undefined)
\* const OLLAMA_HOST = config.get('OLLAMA_HOST'); ... : a use of the constant.
Setting(constants, cfg, key) == constants[key]

\* No client has been built.
NoOptions == [kind |-> "none"]

\* What initializeRAG passes to ChatOllama and OllamaEmbeddings.
ClientOptions(constants, cfg) ==
    [kind |-> "clients",
     baseUrl |-> <<"http://", Setting(constants, cfg, "OLLAMA_HOST").s, ":",
                   Setting(constants, cfg, "OLLAMA_PORT").s>>,
     model |-> Setting(constants, cfg, "DEFAULT_MODEL")]

\* What initializeRAG passes to Neo4jVectorStore.fromDocuments.
StoreOptions(constants, cfg) ==
    [kind |-> "store",
     url |-> Setting(constants, cfg, "NEO4J_URI"),
     username |-> Setting(constants, cfg, "NEO4J_USERNAME"),
     password |-> Setting(constants, cfg, "NEO4J_PASSWORD")]

\* The config object of the answer of GET /api/health.
HealthConfig(constants, cfg) ==
    [kind |-> "health",
     ollamaHost |-> Setting(constants, cfg, "OLLAMA_HOST"),
     ollamaPort |-> Setting(constants, cfg, "OLLAMA_PORT"),
     model |-> Setting(constants, cfg, "DEFAULT_MODEL"),
     neo4jUri |-> HideCredentials(Setting(constants, cfg, "NEO4J_URI"))]

\* The constants of the running server: those its load read, or the defaults
\* when the server is run without its settings.
Constants == IF call.fn = "settings" THEN call.constants ELSE DefaultConstants

\* throw new Error(`Cannot connect to Ollama at ${OLLAMA_HOST}:${OLLAMA_PORT}. ...`)
ErrOllama(constants, cfg) ==
    "Cannot connect to Ollama at " \o Setting(constants, cfg, "OLLAMA_HOST").s \o ":"
        \o Setting(constants, cfg, "OLLAMA_PORT").s \o ". Make sure Ollama is running."
\* throw new Error(`Cannot connect to Neo4j at ${NEO4J_URI}. ...`)
ErrNeo4j(constants, cfg) ==
    "Cannot connect to Neo4j at " \o Setting(constants, cfg, "NEO4J_URI").s
        \o ". Make sure Neo4j is running with correct credentials."

\* ------------------------------------------------------ pure helpers

Truthy(v) == v \notin {"undefined", ""}

\* textSplitter.splitDocuments: the chunks of every document, in order.
RECURSIVE SplitDocuments(_)
SplitDocuments(docs) ==
    IF docs = <<>> THEN <<>>
    ELSE [k \in 1..Head(docs).chunks |-> [source |-> Head(docs).source, part |-> k]]
         \o SplitDocuments(Tail(docs))

\* One iteration of the URL loop: load urls[r.i]; push the document, or record
\* the error (console.error in initializeRAG, errors.push in POST /api/add-urls).
Loaded(r, out) ==
    [r EXCEPT !.fetched = Append(r.fetched, out),
              !.docs = IF out.ok THEN Append(r.docs, [source |-> r.i, chunks |-> out.chunks])
                       ELSE r.docs,
              !.errors = IF out.ok THEN r.errors ELSE Append(r.errors, r.i)]

\* Variant: the first load that throws ends the loop.
LoopAbortsOnFailure(i, n, out) == i < n /\ out.ok
\* for (const url of urls): a caught load error does not leave the loop.
LoopContinues(i, n, out) == i < n

\* After the loop: split what was loaded and hand the chunks to the store.
Handed(r) ==
    [r EXCEPT !.splitCalled = TRUE, !.storeCalled = TRUE,
              !.chunks = Len(SplitDocuments(r.docs))]

\* Variant: no re-entrancy guard.
NeverBlocked == FALSE
\* if (isInitializing) return;
ReentryBlocked == isInitializing

\* Variant: POST /api/initialize does not look at vectorstore.
NeverInitialized == FALSE
\* Variant: a failed run counts as an initialization too.
InitializedOrFailed == vectorstore # NULL \/ initializationError # NoError
\* if (vectorstore) return res.json({ success: true, message: 'RAG system already initialized' })
AlreadyInitialized == vectorstore # NULL

\* if (docs.length === 0) throw new Error('No documents were successfully loaded from URLs')
NoDocsLoaded(docs) == Len(docs) = 0

\* Variant: no finally block.
FlagStaysSet == TRUE
\* finally { isInitializing = false; }
FlagAfterRun == FALSE

\* Variant: only the chat model is checked.
RagNotReadyChatOnly == chatModel = NULL
\* if (!retriever || !chatModel)
RagNotReady == retriever = NULL \/ chatModel = NULL

\* POST /api/chat/before-rag up to its first await: the status it answers at once, 0 to go on.
BeforeRagGate(topic) ==
    IF ~Truthy(topic) THEN 400
    ELSE IF chatModel = NULL THEN 503
    ELSE 0

\* Variant: readiness is checked before the field.
WithRagGateReadinessFirst(question) ==
    IF RagNotReady THEN 503
    ELSE IF ~Truthy(question) THEN 400
    ELSE 0
\* POST /api/chat/with-rag up to its first await.
WithRagGate(question) ==
    IF ~Truthy(question) THEN 400
    ELSE IF RagNotReady THEN 503
    ELSE 0

\* ---------------------------------------------- Server: initializeRAG

\* Variant: the flag is reset by the success path only.
RejectRunKeepsFlag(c, ev, msg, ok, r) ==
    /\ initializationError' = msg
    /\ isInitializing' = isInitializing
    /\ req' = [req EXCEPT ![c] = Idle]
    /\ failedRuns' = Min(failedRuns + 1, MaxCount)
    /\ last' = Event(ev, c, IF c = Auto THEN 0 ELSE 500, msg, "rejected", ok, r)
\* catch (error) { initializationError = error.message; throw error } finally { ... };
\* the awaiting handler answers 500 in the same turn, the listen callback only logs.
RejectRun(c, ev, msg, ok, r) ==
    /\ initializationError' = msg
    /\ isInitializing' = FlagAfterRun
    /\ req' = [req EXCEPT ![c] = Idle]
    /\ failedRuns' = Min(failedRuns + 1, MaxCount)
    /\ last' = Event(ev, c, IF c = Auto THEN 0 ELSE 500, msg, "rejected", ok, r)

\* initializeRAG() from its call to its first await (the connection test):
\* the flag, the chat model and the embeddings client, built from the constants.
CallInitializeRAG(c, ev) ==
    IF ReentryBlocked
    THEN /\ last' = Event(ev, c, IF c = Auto THEN 0 ELSE 200, MsgInitialized, "skipped", TRUE,
                          [Idle EXCEPT !.op = ev, !.entry = Snapshot])
         /\ UNCHANGED <<chatModel, isInitializing, initializationError, req>>
    ELSE /\ isInitializing' = TRUE
         /\ initializationError' = NoError
         /\ chatModel' = ChatOllama
         /\ req' = [req EXCEPT ![c] = [Idle EXCEPT !.op = ev, !.pc = "connTest",
                                                   !.n = NumUrls, !.entry = Snapshot,
                                                   !.options = ClientOptions(Constants, config)]]
         /\ last' = Event(ev, c, 0, NoMsg, "started", TRUE, req'[c])

\* app.listen callback: auto-initialization.
Listen ==
    /\ program = "Server"
    /\ phase = "boot"
    /\ call.fn = "settings" => cfgPhase = "loaded"
    /\ phase' = "serving"
    /\ CallInitializeRAG(Auto, "listen")
    /\ UNCHANGED <<program, vectorstore, retriever, populated, failedRuns, ollamaTested>>
    /\ UNCHANGED <<cfgVars, fnVars>>

\* POST /api/initialize.
InitializeRequest(c) ==
    /\ program = "Server"
    /\ Listening
    /\ req[c].pc = "idle"
    /\ IF AlreadyInitialized
       THEN /\ last' = Event("initialize", c, 200, MsgAlready, "none", TRUE,
                             [Idle EXCEPT !.op = "initialize", !.entry = Snapshot])
            /\ UNCHANGED <<chatModel, isInitializing, initializationError, req>>
       ELSE CallInitializeRAG(c, "initialize")
    /\ UNCHANGED <<program, phase, vectorstore, retriever, populated, failedRuns, ollamaTested>>
    /\ UNCHANGED <<cfgVars, fnVars>>

\* await chatModel.invoke('Hello') returns or throws.
ConnectionTest(c, ok) ==
    /\ program = "Server"
    /\ Listening
    /\ req[c].pc = "connTest"
    /\ IF ok
       THEN /\ req' = [req EXCEPT ![c].pc = "loading", ![c].i = 1]
            /\ ollamaTested' = TRUE
            /\ last' = Event("connTest", c, 0, NoMsg, "none", TRUE, req'[c])
            /\ UNCHANGED <<isInitializing, initializationError, failedRuns>>
       ELSE /\ RejectRun(c, "connTest", ErrOllama(Constants, config), FALSE, req[c])
            /\ UNCHANGED ollamaTested
    /\ UNCHANGED <<program, phase, vectorstore, retriever, chatModel, populated>>
    /\ UNCHANGED <<cfgVars, fnVars>>

\* await loader.load() of urls[i] returns or throws; after the last URL the
\* run goes on to the zero-documents check, the splitter and fromDocuments.
LoadUrl(c, out) ==
    /\ program = "Server"
    /\ Listening
    /\ req[c].pc = "loading"
    /\ LET r == Loaded(req[c], out) IN
       IF LoopContinues(req[c].i, req[c].n, out)
       THEN /\ req' = [req EXCEPT ![c] = [r EXCEPT !.i = r.i + 1]]
            /\ last' = Event("load", c, 0, NoMsg, "none", out.ok, req'[c])
            /\ UNCHANGED <<isInitializing, initializationError, failedRuns>>
       ELSE IF NoDocsLoaded(r.docs)
       THEN RejectRun(c, "load", ErrNoDocs, out.ok, r)
       ELSE /\ req' = [req EXCEPT ![c] = [Handed(r) EXCEPT !.pc = "store",
                                           !.options = StoreOptions(Constants, config)]]
            /\ last' = Event("load", c, 0, NoMsg, "none", out.ok, req'[c])
            /\ UNCHANGED <<isInitializing, initializationError, failedRuns>>
    /\ UNCHANGED <<program, phase, vectorstore, retriever, chatModel, populated, ollamaTested>>
    /\ UNCHANGED <<cfgVars, fnVars>>

\* Variant: the retriever is not made in the turn the vector store is set in.
StoreCreatedAlone(c, ok) ==
    /\ program = "Server"
    /\ Listening
    /\ req[c].pc = "store"
    /\ IF ok
       THEN /\ vectorstore' = [kind |-> "Neo4jVectorStore", docs |-> Len(req[c].docs),
                            chunks |-> req[c].chunks]
            /\ isInitializing' = FlagAfterRun
            /\ populated' = Min(populated + 1, MaxCount)
            /\ req' = [req EXCEPT ![c] = Idle]
            /\ last' = Event("store", c, IF c = Auto THEN 0 ELSE 200, MsgInitialized,
                             "resolved", TRUE, req[c])
            /\ UNCHANGED <<initializationError, failedRuns, retriever>>
       ELSE /\ RejectRun(c, "store", ErrNeo4j(Constants, config), FALSE, req[c])
            /\ UNCHANGED <<vectorstore, retriever, populated>>
    /\ UNCHANGED <<program, phase, chatModel, ollamaTested>>
    /\ UNCHANGED <<cfgVars, fnVars>>

\* await Neo4jVectorStore.fromDocuments(...) returns or throws.
StoreCreated(c, ok) ==
    /\ program = "Server"
    /\ Listening
    /\ req[c].pc = "store"
    /\ IF ok
       THEN /\ vectorstore' = [kind |-> "Neo4jVectorStore", docs |-> Len(req[c].docs),
                            chunks |-> req[c].chunks]
            /\ retriever' = [kind |-> "VectorStoreRetriever", k |-> RetrieverK]
            /\ isInitializing' = FlagAfterRun
            /\ populated' = Min(populated + 1, MaxCount)
            /\ req' = [req EXCEPT ![c] = Idle]
            /\ last' = Event("store", c, IF c = Auto THEN 0 ELSE 200, MsgInitialized,
                             "resolved", TRUE, req[c])
            /\ UNCHANGED <<initializationError, failedRuns>>
       ELSE /\ RejectRun(c, "store", ErrNeo4j(Constants, config), FALSE, req[c])
            /\ UNCHANGED <<vectorstore, retriever, populated>>
    /\ UNCHANGED <<program, phase, chatModel, ollamaTested>>
    /\ UNCHANGED <<cfgVars, fnVars>>

\* ------------------------------------------------ Server: chat handlers

\* POST /api/chat/before-rag: the 400 and 503 answers, or the call of the chain
\* (prompt, chat model, output parser).
BeforeRag(c, topic) ==
    /\ program = "Server"
    /\ Listening
    /\ req[c].pc = "idle"
    /\ LET status == BeforeRagGate(topic)
           r == [Idle EXCEPT !.op = "before-rag", !.field = topic, !.entry = Snapshot]
       IN IF status # 0
          THEN /\ last' = Event("before-rag", c, status,
                                IF status = 400 THEN MsgTopicRequired ELSE MsgChatNotInit,
                                "none", TRUE, r)
               /\ UNCHANGED req
          ELSE /\ req' = [req EXCEPT ![c] = [Idle EXCEPT !.op = "before-rag", !.field = topic,
                                                      !.pc = "generating", !.chatCalls = 1]]
               /\ last' = Event("before-rag", c, 0, NoMsg, "none", TRUE,
                                [r EXCEPT !.pc = "generating", !.chatCalls = 1])
    /\ UNCHANGED <<program, phase, vectorstore, retriever, chatModel, isInitializing,
                   initializationError, populated, failedRuns, ollamaTested>>
    /\ UNCHANGED <<cfgVars, fnVars>>

\* POST /api/chat/with-rag: the 400 and 503 answers, or the call of the chain,
\* whose first step invokes the retriever.
WithRag(c, question) ==
    /\ program = "Server"
    /\ Listening
    /\ req[c].pc = "idle"
    /\ LET status == WithRagGate(question)
           r == [Idle EXCEPT !.op = "with-rag", !.field = question, !.entry = Snapshot]
       IN IF status # 0
          THEN /\ last' = Event("with-rag", c, status,
                                IF status = 400 THEN MsgQuestionRequired ELSE MsgRagNotInit,
                                "none", TRUE, r)
               /\ UNCHANGED req
          ELSE /\ req' = [req EXCEPT ![c] = [Idle EXCEPT !.op = "with-rag", !.field = question,
                                                      !.pc = "retrieving", !.retrieverCalls = 1,
                                                      !.query = question]]
               /\ last' = Event("with-rag", c, 0, NoMsg, "none", TRUE,
                                [r EXCEPT !.pc = "retrieving", !.retrieverCalls = 1,
                                          !.query = question])
    /\ UNCHANGED <<program, phase, vectorstore, retriever, chatModel, isInitializing,
                   initializationError, populated, failedRuns, ollamaTested>>
    /\ UNCHANGED <<cfgVars, fnVars>>

\* The page contents a retriever can return for a question, in its order.
ChunkTexts == {"chunk a", "chunk b"}
Retrievals == UNION {[1..n -> ChunkTexts] : n \in 0..MaxRetrieved}

\* Variant: the texts one after the other with nothing between them.
RECURSIVE JoinBare(_, _)
JoinBare(texts, separator) ==
    IF texts = <<>> THEN <<>> ELSE <<Head(texts)>> \o JoinBare(Tail(texts), separator)
\* docs.map(doc => doc.pageContent).join(separator), as a sequence of pieces
RECURSIVE Join(_, _)
Join(texts, separator) ==
    IF Len(texts) <= 1 THEN texts
    ELSE <<Head(texts), separator>> \o Join(Tail(texts), separator)

\* await retriever.invoke(input.question) returns docs or throws: the chain
\* makes the context of the docs and goes on to the prompt and the chat
\* model, or the handler's catch answers 500.
Retrieved(c, ok, docs) ==
    /\ program = "Server"
    /\ Listening
    /\ req[c].pc = "retrieving"
    /\ ~ok => docs = <<>>
    /\ IF ok
       THEN /\ req' = [req EXCEPT ![c].pc = "generating", ![c].chatCalls = 1]
            /\ last' = Event("retrieved", c, 0, NoMsg, "none", TRUE,
                             [req'[c] EXCEPT !.retrieved = docs,
                                             !.context = Join(docs, "\n\n")])
       ELSE /\ req' = [req EXCEPT ![c] = Idle]
            /\ last' = Event("retrieved", c, 500, ErrInternal, "none", FALSE, req[c])
    /\ UNCHANGED <<program, phase, vectorstore, retriever, chatModel, isInitializing,
                   initializationError, populated, failedRuns, ollamaTested>>
    /\ UNCHANGED <<cfgVars, fnVars>>

\* Variant: a failure of the chat model is kept as the initialization error.
GeneratedKeepsError(c, ok) ==
    /\ program = "Server"
    /\ Listening
    /\ req[c].pc = "generating"
    /\ req' = [req EXCEPT ![c] = Idle]
    /\ last' = Event("generated", c, IF ok THEN 200 ELSE 500,
                     IF ok THEN MsgOk ELSE ErrInternal, "none", ok, req[c])
    /\ initializationError' = IF ok THEN initializationError ELSE ErrInternal
    /\ UNCHANGED <<program, phase, vectorstore, retriever, chatModel, isInitializing,
                   populated, failedRuns, ollamaTested>>
    /\ UNCHANGED <<cfgVars, fnVars>>

\* The chat model's call returns or throws: the parsed answer, or 500.
Generated(c, ok) ==
    /\ program = "Server"
    /\ Listening
    /\ req[c].pc = "generating"
    /\ req' = [req EXCEPT ![c] = Idle]
    /\ last' = Event("generated", c, IF ok THEN 200 ELSE 500,
                     IF ok THEN MsgOk ELSE ErrInternal, "none", ok, req[c])
    /\ UNCHANGED <<program, phase, vectorstore, retriever, chatModel, isInitializing,
                   initializationError, populated, failedRuns, ollamaTested>>
    /\ UNCHANGED <<cfgVars, fnVars>>

\* GET /api/health: the answer reports the status as it is. The handler
\* answers in the turn the request arrives in, so it takes none of the
\* requests in flight: its caller is written as the first.
Health ==
    /\ program = "Server"
    /\ Listening
    /\ last' = Event("health", 1, 200, MsgOk, "none", TRUE,
                     [Idle EXCEPT !.op = "health", !.entry = Snapshot,
                                  !.options = HealthConfig(Constants, config)])
    /\ UNCHANGED <<program, phase, vectorstore, retriever, chatModel, isInitializing,
                   initializationError, req, populated, failedRuns, ollamaTested>>
    /\ UNCHANGED <<cfgVars, fnVars>>

\* GET /api/config: the answer holds the safe settings and their sources.
GetConfig ==
    /\ program = "Server"
    /\ Listening
    /\ last' = Event("config", 1, 200, MsgOk, "none", TRUE, [Idle EXCEPT !.op = "config"])
    /\ UNCHANGED <<program, phase, vectorstore, retriever, chatModel, isInitializing,
                   initializationError, req, populated, failedRuns, ollamaTested>>
    /\ UNCHANGED <<cfgVars, fnVars>>

\* ------------------------------------------------------- LegacyServer

\* The file is loaded: const appConfig = config.loadConfig() and the reads of
\* appConfig, the routes, process.on('SIGINT'), then startServer() up to the
\* first await of initializeRAG.  With backend/config.js as ./config,
\* loadConfig() returns nothing and the read of appConfig.OLLAMA_HOST throws
\* (configLoads FALSE); with a config module whose loadConfig() returns the
\* settings, as Server.js of part_000:13-29 requires it from ../src/config,
\* the start goes on.
StartServer(configLoads) ==
    /\ program = "LegacyServer"
    /\ phase = "boot"
    /\ chatModel = NULL
    /\ IF ~configLoads
       THEN /\ phase' = "crashed"
            /\ last' = Event("startServer", Auto, 0, ErrNoConfig, "none", FALSE,
                             [Idle EXCEPT !.op = "startServer", !.entry = Snapshot])
            /\ UNCHANGED <<chatModel, req>>
       ELSE /\ chatModel' = ChatOllama
            /\ req' = [req EXCEPT ![Auto] = [Idle EXCEPT !.op = "startServer",
                                                      !.pc = "loading", !.n = LegacyUrls,
                                                      !.i = 1, !.entry = Snapshot]]
            /\ last' = Event("startServer", Auto, 0, NoMsg, "started", TRUE, req'[Auto])
            /\ UNCHANGED phase
    /\ UNCHANGED <<program, vectorstore, retriever, isInitializing, initializationError,
                   populated, failedRuns, ollamaTested>>
    /\ UNCHANGED <<cfgVars, fnVars>>

\* await loader.load() of urls[i] in initializeRAG of the single-file server;
\* after the last URL the zero-documents check, the splitter and the call of
\* fromDocuments.  startServer answers a throw with process.exit(1).
StartLoad(out) ==
    /\ program = "LegacyServer"
    /\ phase = "boot"
    /\ req[Auto].pc = "loading"
    /\ LET r == Loaded(req[Auto], out) IN
       IF LoopContinues(req[Auto].i, req[Auto].n, out)
       THEN /\ req' = [req EXCEPT ![Auto] = [r EXCEPT !.i = r.i + 1]]
            /\ last' = Event("startLoad", Auto, 0, NoMsg, "none", out.ok, req'[Auto])
            /\ UNCHANGED phase
       ELSE IF NoDocsLoaded(r.docs)
       THEN /\ req' = [req EXCEPT ![Auto] = Idle]
            /\ last' = Event("startLoad", Auto, 0, ErrNoDocsLegacy, "rejected", out.ok, r)
            /\ phase' = "exited"
       ELSE /\ req' = [req EXCEPT ![Auto] = [Handed(r) EXCEPT !.pc = "store"]]
            /\ last' = Event("startLoad", Auto, 0, NoMsg, "none", out.ok, req'[Auto])
            /\ UNCHANGED phase
    /\ UNCHANGED <<program, vectorstore, retriever, chatModel, isInitializing,
                   initializationError, populated, failedRuns, ollamaTested>>
    /\ UNCHANGED <<cfgVars, fnVars>>

\* await Neo4jVectorStore.fromDocuments(...) of the single-file server returns
\* or throws: vectorstore.asRetriever() and app.listen, or the error thrown
\* again and process.exit(1).
StartStored(ok) ==
    /\ program = "LegacyServer"
    /\ phase = "boot"
    /\ req[Auto].pc = "store"
    /\ req' = [req EXCEPT ![Auto] = Idle]
    /\ IF ok
       THEN /\ vectorstore' = [kind |-> "Neo4jVectorStore"]
            /\ retriever' = [kind |-> "VectorStoreRetriever"]
            /\ phase' = "serving"
            /\ last' = Event("startStore", Auto, 0, MsgInitialized, "resolved", TRUE,
                             req[Auto])
       ELSE /\ phase' = "exited"
            /\ last' = Event("startStore", Auto, 0, ErrStore, "rejected", FALSE, req[Auto])
            /\ UNCHANGED <<vectorstore, retriever>>
    /\ UNCHANGED <<program, chatModel, isInitializing, initializationError, populated,
                   failedRuns, ollamaTested>>
    /\ UNCHANGED <<cfgVars, fnVars>>

\* process.on('SIGINT'): if (vectorstore) await vectorstore.close(), then
\* process.exit(0).  The handler is registered when the file is loaded.
Sigint ==
    /\ program \in {"Server", "LegacyServer"}
    /\ phase \in {"boot", "serving"}
    /\ program = "LegacyServer" => chatModel # NULL
    /\ call.fn = "settings" => cfgPhase = "loaded"
    /\ phase' = IF vectorstore = NULL THEN "exited" ELSE "closing"
    /\ last' = Event("sigint", Auto, 0, NoMsg, "none", TRUE,
                     [Idle EXCEPT !.op = "sigint", !.entry = Snapshot])
    /\ UNCHANGED <<program, vectorstore, retriever, chatModel, isInitializing,
                   initializationError, req, populated, failedRuns, ollamaTested>>
    /\ UNCHANGED <<cfgVars, fnVars>>

\* await vectorstore.close() of the SIGINT handler returns, and the handler
\* calls process.exit(0), or throws, and the rejection nobody handles ends
\* the process.
StoreClosed(ok) ==
    /\ program \in {"Server", "LegacyServer"}
    /\ phase = "closing"
    /\ phase' = "exited"
    /\ last' = Event("closed", Auto, 0, NoMsg, "none", ok,
                     [Idle EXCEPT !.op = "sigint", !.entry = Snapshot])
    /\ UNCHANGED <<program, vectorstore, retriever, chatModel, isInitializing,
                   initializationError, req, populated, failedRuns, ollamaTested>>
    /\ UNCHANGED <<cfgVars, fnVars>>

\* Request bodies of POST /api/add-urls: urls missing or no array, or an
\* array of n URLs.
Bodies == {[valid |-> FALSE, n |-> 0]} \cup {[valid |-> TRUE, n |-> k] : k \in 0..NumUrls}

\* POST /api/add-urls up to its first await.
AddUrls(c, body) ==
    /\ program = "LegacyServer"
    /\ phase \in {"serving", "closing"}
    /\ req[c].pc = "idle"
    /\ LET r == [Idle EXCEPT !.op = "add-urls", !.entry = Snapshot,
                             !.n = body.n, !.i = 1]
       IN IF ~body.valid
          THEN /\ last' = Event("add-urls", c, 400, MsgUrlsRequired, "none", TRUE, r)
               /\ UNCHANGED req
          ELSE IF vectorstore = NULL
          THEN /\ last' = Event("add-urls", c, 503, MsgVsNotInit, "none", TRUE, r)
               /\ UNCHANGED req
          ELSE IF body.n = 0
          THEN /\ last' = Event("add-urls", c, 200, MsgOk, "none", TRUE, r)
               /\ UNCHANGED req
          ELSE /\ req' = [req EXCEPT ![c] = [r EXCEPT !.pc = "loading"]]
               /\ last' = Event("add-urls", c, 0, NoMsg, "none", TRUE, req'[c])
    /\ UNCHANGED <<program, phase, vectorstore, retriever, chatModel, isInitializing,
                   initializationError, populated, failedRuns, ollamaTested>>
    /\ UNCHANGED <<cfgVars, fnVars>>

\* await loader.load() of urls[i] in POST /api/add-urls; after the last URL:
\* if (docs.length > 0) split and addDocuments, else answer at once.
AddUrlsLoad(c, out) ==
    /\ program = "LegacyServer"
    /\ phase \in {"serving", "closing"}
    /\ req[c].pc = "loading"
    /\ LET r == Loaded(req[c], out) IN
       IF LoopContinues(req[c].i, req[c].n, out)
       THEN /\ req' = [req EXCEPT ![c] = [r EXCEPT !.i = r.i + 1]]
            /\ last' = Event("addLoad", c, 0, NoMsg, "none", out.ok, req'[c])
       ELSE IF Len(r.docs) > 0
       THEN /\ req' = [req EXCEPT ![c] = [Handed(r) EXCEPT !.pc = "adding"]]
            /\ last' = Event("addLoad", c, 0, NoMsg, "none", out.ok, req'[c])
       ELSE /\ req' = [req EXCEPT ![c] = Idle]
            /\ last' = Event("addLoad", c, 200, MsgOk, "none", out.ok, r)
    /\ UNCHANGED <<program, phase, vectorstore, retriever, chatModel, isInitializing,
                   initializationError, populated, failedRuns, ollamaTested>>
    /\ UNCHANGED <<cfgVars, fnVars>>

\* await vectorstore.addDocuments(docSplits) returns or throws.
AddUrlsStored(c, ok) ==
    /\ program = "LegacyServer"
    /\ phase \in {"serving", "closing"}
    /\ req[c].pc = "adding"
    /\ req' = [req EXCEPT ![c] = Idle]
    /\ last' = Event("added", c, IF ok THEN 200 ELSE 500,
                     IF ok THEN MsgOk ELSE ErrInternal, "none", ok, req[c])
    /\ UNCHANGED <<program, phase, vectorstore, retriever, chatModel, isInitializing,
                   initializationError, populated, failedRuns, ollamaTested>>
    /\ UNCHANGED <<cfgVars, fnVars>>

Next ==
    \/ Listen
    \/ \E c \in Requests : InitializeRequest(c)
    \/ \E c \in Callers, ok \in BOOLEAN : ConnectionTest(c, ok)
    \/ \E c \in Callers, out \in Outcomes : LoadUrl(c, out)
    \/ \E c \in Callers, ok \in BOOLEAN : StoreCreated(c, ok)
    \/ \E c \in Requests, topic \in Fields : BeforeRag(c, topic)
    \/ \E c \in Requests, question \in Fields : WithRag(c, question)
    \/ \E c \in Requests, ok \in BOOLEAN, docs \in Retrievals : Retrieved(c, ok, docs)
    \/ Health
    \/ GetConfig
    \/ \E c \in Requests, ok \in BOOLEAN : Generated(c, ok)
    \/ \E configLoads \in BOOLEAN : StartServer(configLoads)
    \/ \E out \in Outcomes : StartLoad(out)
    \/ \E ok \in BOOLEAN : StartStored(ok)
    \/ Sigint
    \/ \E ok \in BOOLEAN : StoreClosed(ok)
    \/ \E c \in Adders, body \in Bodies : AddUrls(c, body)
    \/ \E c \in Adders, out \in Outcomes : AddUrlsLoad(c, out)
    \/ \E c \in Adders, ok \in BOOLEAN : AddUrlsStored(c, ok)

Spec == Init /\ [][Next]_vars

\* The awaits of an initializeRAG run: the connection test, a page load,
\* Neo4jVectorStore.fromDocuments.
RunStep ==
    \/ \E c \in Callers, ok \in BOOLEAN : ConnectionTest(c, ok)
    \/ \E c \in Callers, out \in Outcomes : LoadUrl(c, out)
    \/ \E c \in Callers, ok \in BOOLEAN : StoreCreated(c, ok)

\* backend/Server.js alone: its module state, its callbacks and its routes,
\* the chat routes with the requests of one client.
InitServer ==
    /\ program = "Server"
    /\ ModuleLoaded
    /\ ConfigOff
    /\ FunctionsOff

NextServer ==
    \/ Listen
    \/ \E c \in Requests : InitializeRequest(c)
    \/ \E c \in Callers, ok \in BOOLEAN : ConnectionTest(c, ok)
    \/ \E c \in Callers, out \in Outcomes : LoadUrl(c, out)
    \/ \E c \in Callers, ok \in BOOLEAN : StoreCreated(c, ok)
    \/ \E topic \in Fields : BeforeRag(1, topic)
    \/ \E question \in Fields : WithRag(1, question)
    \/ \E ok \in BOOLEAN, docs \in Retrievals : Retrieved(1, ok, docs)
    \/ Health
    \/ GetConfig
    \/ \E ok \in BOOLEAN : Generated(1, ok)
    \/ Sigint
    \/ \E ok \in BOOLEAN : StoreClosed(ok)

\* Every external call a run awaits eventually returns or throws: the
\* event loop then resumes the run.
FairSpec == InitServer /\ [][NextServer]_vars /\ WF_vars(RunStep)

\* ==================================================================
\* ConfigLoader (config.js)
\* ==================================================================

\* { ...a, ...b }
Merge(a, b) ==
    [k \in DOMAIN a \cup DOMAIN b |-> IF k \in DOMAIN b THEN b[k] ELSE a[k]]

\* JSON.parse(fs.readFileSync(path)) of a file that parses: its top-level
\* keys, the module section being one of them.
ObjectOf(f) ==
    IF f.hasSection THEN Merge(f.top, One(ModuleName, SectionOf(f.name, f.section))) ELSE f.top

\* One level of loadParentConfigs: if (fs.existsSync(configPath)) try { merge
\* the file, then its module section } catch { warn }.
MergeParent(cfg, f) ==
    IF f.status # "ok" THEN cfg
    ELSE LET merged == Merge(cfg, ObjectOf(f)) IN
         IF TruthyValue(Lookup(ObjectOf(f), ModuleName)) THEN Merge(merged, f.section)
         ELSE merged

\* Variant: a file that does not parse ends the walk.
RECURSIVE ParentWalkStopsAtMalformed(_, _, _)
ParentWalkStopsAtMalformed(cfg, parents, level) ==
    IF level > MaxLevels \/ level > Len(parents) \/ parents[level].status = "malformed"
    THEN cfg
    ELSE ParentWalkStopsAtMalformed(MergeParent(cfg, parents[level]), parents, level + 1)
\* The for loop of loadParentConfigs from the level-th directory above
\* __dirname on: it ends after maxLevels levels or at the filesystem root.
RECURSIVE ParentWalk(_, _, _)
ParentWalk(cfg, parents, level) ==
    IF level > MaxLevels \/ level > Len(parents) THEN cfg
    ELSE ParentWalk(MergeParent(cfg, parents[level]), parents, level + 1)

\* loadParentConfigs()
LoadParentConfigs(cfg, fs) == ParentWalk(cfg, fs.parents, 1)

\* const localConfigPaths = [...]: ../config.json is the config.json of the
\* first directory above __dirname.
LocalConfigPaths(fs) == <<fs.staticSettings, fs.configsConfig, fs.parents[1]>>

\* Variant: no break after the first candidate that loads.
RECURSIVE LocalWalkNoBreak(_, _, _)
LocalWalkNoBreak(cfg, paths, i) ==
    IF i > Len(paths) THEN cfg
    ELSE IF paths[i].status = "ok"
    THEN LocalWalkNoBreak(Merge(cfg, ObjectOf(paths[i])), paths, i + 1)
    ELSE LocalWalkNoBreak(cfg, paths, i + 1)
\* The for loop of loadLocalConfig from the i-th candidate on.
RECURSIVE LocalWalk(_, _, _)
LocalWalk(cfg, paths, i) ==
    IF i > Len(paths) THEN cfg
    ELSE IF paths[i].status = "ok" THEN Merge(cfg, ObjectOf(paths[i]))
    ELSE LocalWalk(cfg, paths, i + 1)

\* loadLocalConfig()
LoadLocalConfig(cfg, fs) == LocalWalk(cfg, LocalConfigPaths(fs), 1)

\* const envMapping = {...}: config key -> environment variable
EnvMapping ==
    [k \in {"OLLAMA_HOST", "OLLAMA_PORT", "DEFAULT_MODEL", "NEO4J_URI", "NEO4J_USERNAME",
            "NEO4J_PASSWORD", "SERVER_PORT", "CORS_ORIGIN", "LOG_LEVEL"} |->
        IF k = "SERVER_PORT" THEN "PORT" ELSE k]

\* process.env[name]
EnvGet(e, name) == IF name \in DOMAIN e THEN Str(e[name]) ELSE Undefined

\* Variant: every variable of the environment is copied under its own name.
LoadEnvironmentConfigAnyVariable(cfg, e) ==
    Merge(cfg, [n \in {x \in DOMAIN e : e[x] # ""} |-> Str(e[n])])
\* loadEnvironmentConfig(): if (process.env[envKey]) this.config[configKey] = ...
LoadEnvironmentConfig(cfg, e) ==
    LET set == {k \in DOMAIN EnvMapping : TruthyValue(EnvGet(e, EnvMapping[k]))}
    IN Merge(cfg, [k \in set |-> EnvGet(e, EnvMapping[k])])

\* Variant: the local file is merged before the parent files.
LoadConfigLocalFirst(cur, fs, e) ==
    LoadEnvironmentConfig(LoadParentConfigs(LoadLocalConfig(GetDefaults, fs), fs), e)
\* Variant: the layers are applied to the map as it stands.
LoadConfigOverCurrent(cur, fs, e) ==
    LoadEnvironmentConfig(LoadLocalConfig(LoadParentConfigs(cur, fs), fs), e)
\* loadConfig(): this.config = this.getDefaults(), then the parent files,
\* the local file and the environment; cur is this.config at the call.
LoadConfig(cur, fs, e) ==
    LoadEnvironmentConfig(LoadLocalConfig(LoadParentConfigs(GetDefaults, fs), fs), e)

\* const required = [...]
Required == {"OLLAMA_HOST", "OLLAMA_PORT", "DEFAULT_MODEL"}

\* Variant: required.filter(key => !(key in this.config))
MissingAbsentOnly(cfg) == {k \in Required : k \notin DOMAIN cfg}
\* required.filter(key => !this.config[key])
Missing(cfg) == {k \in Required : ~TruthyValue(Lookup(cfg, k))}

\* validate(): throws when a required key is missing, else returns true.
Validate(cfg) == Missing(cfg) = {}

\* The capital of a small letter; every other character is left as it is.
UpperChar(c) ==
    CASE c = "a" -> "A" [] c = "b" -> "B" [] c = "c" -> "C" [] c = "d" -> "D" [] c = "e" -> "E" [] c = "f" -> "F"
      [] c = "g" -> "G" [] c = "h" -> "H" [] c = "i" -> "I" [] c = "j" -> "J" [] c = "k" -> "K" [] c = "l" -> "L"
      [] c = "m" -> "M" [] c = "n" -> "N" [] c = "o" -> "O" [] c = "p" -> "P" [] c = "q" -> "Q" [] c = "r" -> "R"
      [] c = "s" -> "S" [] c = "t" -> "T" [] c = "u" -> "U" [] c = "v" -> "V" [] c = "w" -> "W" [] c = "x" -> "X"
      [] c = "y" -> "Y" [] c = "z" -> "Z"
      [] OTHER -> c

\* key.toUpperCase(), character by character.
RECURSIVE ToUpperCase(_)
ToUpperCase(text) ==
    IF text = "" THEN ""
    ELSE UpperChar(SubSeq(text, 1, 1)) \o ToUpperCase(SubSeq(text, 2, Len(text)))

\* text.includes(part): part stands at some position of text.
Includes(text, part) ==
    \E i \in 0..(Len(text) - Len(part)) : SubSeq(text, i + 1, i + Len(part)) = part

\* const sensitive = ['NEO4J_PASSWORD', 'API_KEY', 'SECRET']
Sensitive == {"NEO4J_PASSWORD", "API_KEY", "SECRET"}

\* sensitive.some(s => key.toUpperCase().includes(s))
IsSensitive(key) ==
    LET upper == ToUpperCase(key) IN \E part \in Sensitive : Includes(upper, part)

\* The outcome of that test for the names of the defaults, worked out once;
\* for every other name the test is worked out when the name is met.
SensitiveDefaults == {key \in DOMAIN GetDefaults : IsSensitive(key)}

\* getSafeConfig()
GetSafeConfig(cfg) ==
    [k \in DOMAIN cfg |->
        IF (IF k \in DOMAIN GetDefaults THEN k \in SensitiveDefaults ELSE IsSensitive(k))
        THEN Str("***") ELSE cfg[k]]

\* --------------------------------------- ConfigLoader: its environment

\* The keys whose sources vary: a default read from the environment under
\* its own name, one read from PORT, a sensitive default, and a key that
\* has no default and no environment variable.
LoadKeys == {"OLLAMA_HOST", "SERVER_PORT", "api_key"}
\* The keys a read map is asked for: among them names that hold a marker of
\* getSafeConfig inside a longer name or in other letter case, and names of
\* passwords that hold none.
QueryKeys ==
    {"OLLAMA_HOST", "NEO4J_PASSWORD", "api_key", "client_secret", "my_api_key_2",
     "Neo4j_Password_Old", "DB_PASSWORD", "password"}

\* The config.json files of the d directories above __dirname.
ParentSeqs(k, d) ==
    {ps \in [1..d -> UNION {ParentFiles(k, l) : l \in 1..d}] :
        \A l \in 1..d : ps[l] \in ParentFiles(k, l)}

\* The files on disk: __dirname lies 1 to maxDepth directories below the
\* root, and static_settings.JSON writes the key with a value of vals.
FileSystems(k, maxDepth, vals) ==
    [parents : UNION {ParentSeqs(k, d) : d \in 1..maxDepth},
     staticSettings : LocalFiles(k, "static_settings.JSON", vals),
     configsConfig : LocalFiles(k, "configs/config.json", {Str("configs/config.json")})]

\* The environment variables that could be taken for the key k: the one of
\* the mapping table and the one of the key's own name.
EnvNames(k) == {k} \cup {EnvMapping[x] : x \in {k} \cap DOMAIN EnvMapping}
EnvText(name) == IF name = "PORT" THEN "8080" ELSE "from-env"
\* process.env: each of these variables unset, empty, or set to a text.
Environments(k) ==
    UNION {{e \in [D -> {"", "8080", "from-env"}] :
                \A n \in D : e[n] \in {"", EnvText(n)}} : D \in SUBSET EnvNames(k)}

InitConfig ==
    /\ program = "ConfigLoader"
    /\ ModuleLoaded
    /\ cfgKey \in LoadKeys
    /\ files \in FileSystems(cfgKey, MaxDepth, {Str("static_settings.JSON")})
    /\ env \in Environments(cfgKey)
    /\ cfgPhase = "new"
    /\ config = EmptyMap
    /\ cfgOut = NoOut
    /\ FunctionsOff

InitQuery ==
    /\ program = "ConfigLoader"
    /\ ModuleLoaded
    /\ cfgKey \in QueryKeys
    /\ files \in FileSystems(cfgKey, 1, {Str("static_settings.JSON")} \cup FalsyValues)
    /\ env \in Environments(cfgKey)
    /\ cfgPhase = "new"
    /\ config = EmptyMap
    /\ cfgOut = NoOut
    /\ FunctionsOff

\* ------------------------------------------- ConfigLoader: its methods

\* module.exports = new ConfigLoader(): this.config = {}; this.loadConfig()
Construct ==
    /\ program = "ConfigLoader"
    /\ cfgPhase = "new"
    /\ cfgPhase' = "loaded"
    /\ config' = LoadConfig(EmptyMap, files, env)
    /\ cfgOut' = [NoOut EXCEPT !.op = "load", !.before = EmptyMap, !.fresh = TRUE]
    /\ UNCHANGED <<files, env, cfgKey>>
    /\ UNCHANGED <<srvVars, fnVars>>

\* reload(): this.loadConfig(); return this.config
Reload ==
    /\ program = "ConfigLoader"
    /\ cfgPhase = "loaded"
    /\ config' = LoadConfig(config, files, env)
    /\ cfgOut' = [NoOut EXCEPT !.op = "reload", !.before = config, !.fresh = TRUE,
                               !.unchanged = cfgOut.fresh]
    /\ UNCHANGED <<files, env, cfgKey, cfgPhase>>
    /\ UNCHANGED <<srvVars, fnVars>>

\* Between two loads a config file is deleted.
RemoveFile(which) ==
    /\ program = "ConfigLoader"
    /\ cfgPhase = "loaded"
    /\ IF which = 0
       THEN /\ files.staticSettings.status # "absent"
            /\ files' = [files EXCEPT !.staticSettings = Absent(@.name)]
       ELSE IF which = -1
       THEN /\ files.configsConfig.status # "absent"
            /\ files' = [files EXCEPT !.configsConfig = Absent(@.name)]
       ELSE /\ which \in 1..Len(files.parents)
            /\ files.parents[which].status # "absent"
            /\ files' = [files EXCEPT !.parents[which] = Absent(@.name)]
    /\ cfgOut' = [NoOut EXCEPT !.op = "edit", !.before = config]
    /\ UNCHANGED <<env, cfgKey, cfgPhase, config>>
    /\ UNCHANGED <<srvVars, fnVars>>

\* Between two loads an environment variable is unset.
UnsetEnv(name) ==
    /\ program = "ConfigLoader"
    /\ cfgPhase = "loaded"
    /\ name \in DOMAIN env
    /\ env' = [n \in DOMAIN env \ {name} |-> env[n]]
    /\ cfgOut' = [NoOut EXCEPT !.op = "edit", !.before = config]
    /\ UNCHANGED <<files, cfgKey, cfgPhase, config>>
    /\ UNCHANGED <<srvVars, fnVars>>

\* config.get(key, defaultValue)
CallGet(key, dflt) ==
    /\ program = "ConfigLoader"
    /\ cfgPhase = "loaded"
    /\ cfgOut' = [NoOut EXCEPT !.op = "get", !.key = key, !.dflt = dflt,
                               !.value = Get(config, key, dflt), !.before = config,
                               !.fresh = TRUE]
    /\ UNCHANGED <<files, env, cfgKey, cfgPhase, config>>
    /\ UNCHANGED <<srvVars, fnVars>>

\* config.validate()
CallValidate ==
    /\ program = "ConfigLoader"
    /\ cfgPhase = "loaded"
    /\ cfgOut' = [NoOut EXCEPT !.op = "validate", !.ok = Validate(config),
                               !.missing = Missing(config), !.before = config,
                               !.fresh = TRUE]
    /\ UNCHANGED <<files, env, cfgKey, cfgPhase, config>>
    /\ UNCHANGED <<srvVars, fnVars>>

\* config.getSafeConfig()
CallGetSafeConfig ==
    /\ program = "ConfigLoader"
    /\ cfgPhase = "loaded"
    /\ cfgOut' = [NoOut EXCEPT !.op = "getSafeConfig", !.safe = GetSafeConfig(config),
                               !.before = config, !.fresh = TRUE]
    /\ UNCHANGED <<files, env, cfgKey, cfgPhase, config>>
    /\ UNCHANGED <<srvVars, fnVars>>

\* The default values a caller passes to get: none, or a fallback.
Fallbacks == {Undefined, Str("fallback")}

\* Loading and reloading while the sources change.
NextConfig ==
    \/ Construct
    \/ Reload
    \/ \E which \in -1..MaxDepth : RemoveFile(which)
    \/ \E name \in DOMAIN env : UnsetEnv(name)

ConfigSpec == InitConfig /\ [][NextConfig]_vars

\* Reading the map the module loaded.
NextQuery ==
    \/ Construct
    \/ \E key \in {cfgKey, ModuleName, "RETRIEVER_K"}, dflt \in Fallbacks : CallGet(key, dflt)
    \/ CallValidate
    \/ CallGetSafeConfig

QuerySpec == InitQuery /\ [][NextQuery]_vars

\* ==================================================================
\* parseThinkingResponse (Server.js)
\* ==================================================================

\* A text is a sequence of pieces: the tags, white space, a blank line
\* (two newlines), words, and the phrases the fallback patterns begin with.
Open == "<think>"
OpenUpper == "<THINK>"
Close == "</think>"
Space == " "
BlankLine == "\n\n"
Word == "A"
LongWord == "Bbbbbbbbbbbbbbbbbbbbbbbbbbbb"
Intro1 == "Let me think about this"
Intro2 == "I need to consider"
Intro3 == "Thinking through this"
TextPieces == {Open, OpenUpper, Close, Space, BlankLine, Word, LongWord, Intro1, Intro2, Intro3}

\* The number of characters of a piece, and text.length.
Chars(piece) ==
    CASE piece \in {Open, OpenUpper} -> 7
      [] piece = Close -> 8
      [] piece = Space -> 1
      [] piece = BlankLine -> 2
      [] piece = Word -> 1
      [] piece = LongWord -> 28
      [] piece = Intro1 -> 23
      [] piece = Intro2 -> 18
      [] piece = Intro3 -> 21
RECURSIVE Length(_)
Length(text) == IF text = <<>> THEN 0 ELSE Chars(Head(text)) + Length(Tail(text))

\* The raw responses of the chat model.
Texts == UNION {[1..n -> TextPieces] : n \in 0..MaxTextLen}

\* A string or null.
JsText(text) == [null |-> FALSE, text |-> text]
NullText == [null |-> TRUE, text |-> <<>>]

\* Variant: the regular expressions without the i flag.
CaseSensitive(piece) == piece
\* The i flag of the regular expressions: a piece as it is compared.
IgnoreCase(piece) == IF piece = OpenUpper THEN Open ELSE piece

\* \s
IsSpace(piece) == piece \in {Space, BlankLine}

\* String.prototype.trim()
RECURSIVE TrimStart(_)
TrimStart(text) ==
    IF text # <<>> /\ IsSpace(Head(text)) THEN TrimStart(Tail(text)) ELSE text
RECURSIVE TrimEnd(_)
TrimEnd(text) ==
    IF text # <<>> /\ IsSpace(text[Len(text)]) THEN TrimEnd(SubSeq(text, 1, Len(text) - 1))
    ELSE text
Trim(text) == TrimEnd(TrimStart(text))

\* The first index from i on where text has the piece, 0 when there is none.
RECURSIVE IndexFrom(_, _, _)
IndexFrom(text, piece, i) ==
    IF i > Len(text) THEN 0
    ELSE IF IgnoreCase(text[i]) = piece THEN i
    ELSE IndexFrom(text, piece, i + 1)

NoMatch == [found |-> FALSE, open |-> 0, close |-> 0]

\* Variant: a tag that is not closed encloses the rest of the text.
RECURSIVE MatchThinkUnclosed(_, _)
MatchThinkUnclosed(text, i) ==
    IF i > Len(text) THEN NoMatch
    ELSE IF IgnoreCase(text[i]) = Open
    THEN [found |-> TRUE, open |-> i,
          close |-> IF IndexFrom(text, Close, i + 1) # 0 THEN IndexFrom(text, Close, i + 1)
                    ELSE Len(text) + 1]
    ELSE MatchThinkUnclosed(text, i + 1)
\* response.match(/<think>([\s\S]*?)<\/think>/i) tried from the i-th piece on:
\* the leftmost opening tag that has a closing tag after it, and the nearest
\* such closing tag.
RECURSIVE MatchThink(_, _)
MatchThink(text, i) ==
    IF i > Len(text) THEN NoMatch
    ELSE IF IgnoreCase(text[i]) = Open /\ IndexFrom(text, Close, i + 1) # 0
    THEN [found |-> TRUE, open |-> i, close |-> IndexFrom(text, Close, i + 1)]
    ELSE MatchThink(text, i + 1)

\* const thinkingPatterns = [...]: the phrase each pattern begins with.
ThinkingPatterns == <<Intro1, Intro2, Intro3>>
\* match[1].length > 50
MinThinking == 50

\* response.match(/^(<phrase>[\s\S]*?)\n\n([^]*)/i): match[1] runs from the
\* phrase to the first blank line, match[2] is what follows it.
MatchPattern(phrase, text) ==
    IF text # <<>> /\ IgnoreCase(text[1]) = phrase /\ IndexFrom(text, BlankLine, 2) # 0
    THEN [found |-> TRUE, one |-> SubSeq(text, 1, IndexFrom(text, BlankLine, 2) - 1),
          two |-> SubSeq(text, IndexFrom(text, BlankLine, 2) + 1, Len(text))]
    ELSE [found |-> FALSE, one |-> <<>>, two |-> <<>>]

\* Variant: a pattern that matches is taken whatever the length of match[1].
RECURSIVE PatternLoopAnyLength(_, _)
PatternLoopAnyLength(response, p) ==
    IF p > Len(ThinkingPatterns)
    THEN [thinking |-> NullText, response |-> Trim(response), hasThinking |-> FALSE]
    ELSE LET match == MatchPattern(ThinkingPatterns[p], response) IN
         IF match.found
         THEN [thinking |-> JsText(Trim(match.one)), response |-> Trim(match.two),
               hasThinking |-> TRUE]
         ELSE PatternLoopAnyLength(response, p + 1)
\* for (const pattern of thinkingPatterns) from the p-th pattern on, and the
\* return that follows the loop.
RECURSIVE PatternLoop(_, _)
PatternLoop(response, p) ==
    IF p > Len(ThinkingPatterns)
    THEN [thinking |-> NullText, response |-> Trim(response), hasThinking |-> FALSE]
    ELSE LET match == MatchPattern(ThinkingPatterns[p], response) IN
         IF match.found /\ Length(match.one) > MinThinking
         THEN [thinking |-> JsText(Trim(match.one)), response |-> Trim(match.two),
               hasThinking |-> TRUE]
         ELSE PatternLoop(response, p + 1)

\* parseThinkingResponse(response)
ParseThinkingResponse(response) ==
    LET thinkMatch == MatchThink(response, 1) IN
    IF thinkMatch.found
    THEN [thinking |-> JsText(Trim(SubSeq(response, thinkMatch.open + 1, thinkMatch.close - 1))),
          response |-> Trim(SubSeq(response, 1, thinkMatch.open - 1) \o
                            SubSeq(response, thinkMatch.close + 1, Len(response))),
          hasThinking |-> TRUE]
    ELSE PatternLoop(response, 1)

NoResult == [thinking |-> NullText, response |-> <<>>, hasThinking |-> FALSE]

InitParse ==
    /\ program = "Functions"
    /\ ModuleLoaded
    /\ ConfigOff
    /\ \E text \in Texts :
          call = [fn |-> "parseThinkingResponse", stage |-> "raw", rawResponse |-> text,
                  first |-> NoResult, second |-> NoResult]

\* const parsedResponse = parseThinkingResponse(rawResponse)
Parse ==
    /\ program = "Functions"
    /\ call.fn = "parseThinkingResponse"
    /\ call.stage = "raw"
    /\ call' = [call EXCEPT !.stage = "parsed",
                            !.first = ParseThinkingResponse(call.rawResponse)]
    /\ UNCHANGED <<srvVars, cfgVars>>

\* The response of a parsed result is parsed again.
ParseAgain ==
    /\ program = "Functions"
    /\ call.fn = "parseThinkingResponse"
    /\ call.stage = "parsed"
    /\ call' = [call EXCEPT !.stage = "parsedAgain",
                            !.second = ParseThinkingResponse(call.first.response)]
    /\ UNCHANGED <<srvVars, cfgVars>>

NextParse ==
    \/ Parse
    \/ ParseAgain

ParseSpec == InitParse /\ [][NextParse]_vars

\* ==================================================================
\* Metadata cleaning: the cleanedDocSplits of initializeRAG (Server.js)
\* and Neo4jUtils.cleanDocumentMetadata (neo4j-utils.js)
\* ==================================================================

\* A metadata value: its type, its text (the JSON text of an array or an
\* object), and the items of an array.
MetaValue(t, s, items) == [t |-> t, s |-> s, items |-> items]
MetaStr(s) == MetaValue("string", s, <<>>)
MetaNum(s) == MetaValue("number", s, <<>>)
MetaBool(s) == MetaValue("boolean", s, <<>>)
MetaNull == MetaValue("null", "null", <<>>)
MetaUndefined == MetaValue("undefined", "undefined", <<>>)
MetaObject(s) == MetaValue("object", s, <<>>)
MetaArray(s, items) == MetaValue("array", s, items)

\* The values a metadata field of a loaded document can have.
MetaValues ==
    { MetaStr("https://example.com"), MetaStr(""), MetaNum("1"), MetaBool("true"),
      MetaNull, MetaUndefined,
      MetaObject("{\"from\":1}"),
      MetaArray("[\"a\",\"b\"]", <<MetaStr("a"), MetaStr("b")>>),
      MetaArray("[null]", <<MetaNull>>),
      MetaArray("[[1]]", <<MetaArray("[1]", <<MetaNum("1")>>)>>),
      MetaArray("[{}]", <<MetaObject("{}")>>) }
MetaKeys == {"source", "id", "loc"}
Metadatas == UNION {[keys -> MetaValues] : keys \in SUBSET MetaKeys}

\* pageContent: a sequence of characters.
Contents == UNION {[1..n -> {"x"}] : n \in 0..MaxContent}
Documents == [pageContent : Contents, metadata : Metadatas]

\* A number as the text of its digits.
RECURSIVE ToText(_)
ToText(n) ==
    IF n < 10 THEN <<"0", "1", "2", "3", "4", "5", "6", "7", "8", "9">>[n + 1]
    ELSE ToText(n - 1)

\* typeof value
TypeOf(v) == IF v.t \in {"null", "array"} THEN "object" ELSE v.t

\* JSON.stringify(value) of an array or an object
JsonStringify(v) == MetaStr(v.s)

\* obj[key] = value
WithField(obj, key, v) == [k \in DOMAIN obj \cup {key} |-> IF k = key THEN v ELSE obj[k]]
\* obj[key], undefined when the object has no such key
Field(obj, key) == IF key \in DOMAIN obj THEN obj[key] ELSE MetaUndefined

\* `doc_${Date.now()}_${Math.random()...}`, `chunk_${index}_${Date.now()}`
\* and new Date().toISOString()
GeneratedId == MetaStr("doc_<now>_<random>")
GeneratedChunkId(index) == MetaStr("chunk_" \o ToText(index) \o "_<now>")
Now == MetaStr("<now>")

\* part_000:778-787: the loop over Object.entries(doc.metadata).
CleanEntries(metadata) ==
    [k \in {key \in DOMAIN metadata : \/ TypeOf(metadata[key]) \in {"string", "number", "boolean"}
                                      \/ metadata[key].t \notin {"null", "undefined"}} |->
        IF TypeOf(metadata[k]) \in {"string", "number", "boolean"} THEN metadata[k]
        ELSE JsonStringify(metadata[k])]

\* part_000:774-797: the callback of docSplits.map.
CleanedDocSplit(doc) ==
    LET entries == CleanEntries(doc.metadata)
        source == IF TruthyValue(Field(entries, "source")) THEN Field(entries, "source")
                  ELSE IF TruthyValue(Field(doc.metadata, "source"))
                       THEN Field(doc.metadata, "source")
                  ELSE MetaStr("unknown")
        withSource == WithField(entries, "source", source)
        id == IF TruthyValue(Field(withSource, "id")) THEN Field(withSource, "id")
              ELSE GeneratedId
    IN  [pageContent |-> doc.pageContent, metadata |-> WithField(withSource, "id", id)]

\* Neo4jUtils.isPrimitiveType(value)
RECURSIVE IsPrimitiveType(_)
IsPrimitiveType(v) ==
    \/ TypeOf(v) \in {"string", "number", "boolean"}
    \/ v.t = "null"
    \/ v.t = "undefined"
    \/ v.t = "array" /\ \A i \in 1..Len(v.items) : IsPrimitiveType(v.items[i])

\* part_001:228-239: the loop over Object.entries(doc.metadata).
CleanEntriesUtils(metadata) ==
    [k \in {key \in DOMAIN metadata : \/ IsPrimitiveType(metadata[key])
                                      \/ metadata[key].t \notin {"null", "undefined"}} |->
        IF IsPrimitiveType(metadata[k]) THEN metadata[k] ELSE JsonStringify(metadata[k])]

\* Neo4jUtils.cleanDocumentMetadata: the callback of documents.map.
CleanDocumentMetadata(doc, index) ==
    LET entries == CleanEntriesUtils(doc.metadata)
        source == IF TruthyValue(Field(entries, "source")) THEN Field(entries, "source")
                  ELSE MetaStr("unknown")
        withSource == WithField(entries, "source", source)
        chunkId == IF TruthyValue(Field(withSource, "chunk_id")) THEN Field(withSource, "chunk_id")
                   ELSE GeneratedChunkId(index)
        withChunkId == WithField(withSource, "chunk_id", chunkId)
        withCreatedAt == WithField(withChunkId, "created_at", Now)
    IN  [pageContent |-> doc.pageContent,
         metadata |-> WithField(withCreatedAt, "content_length",
                                MetaNum(ToText(Len(doc.pageContent))))]

NoDocument == [pageContent |-> <<>>, metadata |-> <<>>]

InitClean ==
    /\ program = "Functions"
    /\ ModuleLoaded
    /\ ConfigOff
    /\ \E doc \in Documents :
          call = [fn |-> "cleanMetadata", stage |-> "split", by |-> "none", doc |-> doc,
                  cleaned |-> NoDocument]

\* initializeRAG cleans a chunk on its way to the vector store.
CleanInPipeline ==
    /\ program = "Functions"
    /\ call.fn = "cleanMetadata"
    /\ call.stage = "split"
    /\ call' = [call EXCEPT !.stage = "cleaned", !.by = "initializeRAG",
                            !.cleaned = CleanedDocSplit(call.doc)]
    /\ UNCHANGED <<srvVars, cfgVars>>

\* Neo4jUtils.cleanDocumentMetadata([doc])
CallCleanDocumentMetadata ==
    /\ program = "Functions"
    /\ call.fn = "cleanMetadata"
    /\ call.stage = "split"
    /\ call' = [call EXCEPT !.stage = "cleaned", !.by = "Neo4jUtils",
                            !.cleaned = CleanDocumentMetadata(call.doc, 0)]
    /\ UNCHANGED <<srvVars, cfgVars>>

NextClean ==
    \/ CleanInPipeline
    \/ CallCleanDocumentMetadata

CleanSpec == InitClean /\ [][NextClean]_vars

\* ==================================================================
\* Neo4jUtils: the functions that open a driver (neo4j-utils.js)
\* ==================================================================

\* console.log, console.warn and console.error entries, with the call that
\* wrote them.
LogEntry(level, text, id) == [level |-> level, text |-> text, call |-> id]

\* The functions of the class that open a driver, and what the count query
\* of cleanupVectorStore can return.
DriverFunctions == {"testConnection", "cleanupVectorStore", "getDatabaseInfo"}
NodeCounts == {0, 3}

\* No function has been called yet; the console is empty.
InitDriver ==
    /\ program = "Functions"
    /\ ModuleLoaded
    /\ ConfigOff
    /\ call = [fn |-> "Neo4jUtils", calls |-> <<>>, log |-> <<>>]

\* A call whose catch block has run: what it logs and what it will report
\* once driver.close() of its finally block has returned.
Caught(c, id) ==
    CASE c.fn = "testConnection" ->
           [c |-> [c EXCEPT !.pc = "driverClose", !.result = "failure", !.caught = TRUE],
            log |-> <<>>]
      [] c.fn = "cleanupVectorStore" ->
           [c |-> [c EXCEPT !.pc = "driverClose", !.result = "rejected", !.caught = TRUE],
            log |-> <<LogEntry("error", "Error during cleanup", id)>>]
      [] OTHER ->
           [c |-> [c EXCEPT !.pc = "driverClose", !.result = "unknown", !.caught = TRUE],
            log |-> <<LogEntry("warn", "Could not get database info", id)>>]

\* await driver.close() of a finally block returns, and the call ends as its
\* try or catch block decided, or throws, and the call rejects.
DriverClosed(c, ok) ==
    IF ok THEN [c EXCEPT !.pc = "returned", !.driverClosed = TRUE]
    ELSE [c EXCEPT !.pc = "returned", !.result = "rejected"]

\* What the two calls before the first await can do: neo4j.driver(...)
\* throws, driver.session() throws, or both return.
DriverOutcomes == {"driver throws", "session throws", "session"}

\* A function is called.  neo4j.driver(...) stands before the try: when it
\* throws the call rejects at once, with no catch and no finally.  Then
\* driver.session(), inside the try, throws, or returns and the first query
\* is sent.
CallDriverFunction(fn, opened) ==
    /\ program = "Functions"
    /\ call.fn = "Neo4jUtils"
    /\ Len(call.calls) < MaxCalls
    /\ LET id == Len(call.calls) + 1
           c == [fn |-> fn, result |-> "pending", caught |-> FALSE, driverClosed |-> FALSE,
                 pc |-> CASE fn = "testConnection" -> "run"
                          [] fn = "cleanupVectorStore" -> "drop"
                          [] OTHER -> "versions"]
           next == CASE opened = "driver throws" ->
                         [c |-> [c EXCEPT !.pc = "returned", !.result = "rejected"],
                          log |-> <<>>]
                     [] opened = "session throws" -> Caught(c, id)
                     [] OTHER -> [c |-> c, log |-> <<>>]
       IN call' = [call EXCEPT !.calls = Append(@, next.c), !.log = @ \o next.log]
    /\ UNCHANGED <<srvVars, cfgVars>>

\* Neo4jUtils.testConnection: the call it waits for returns or throws:
\* session.run('RETURN 1'), session.close(), then driver.close().
TestConnection(id, ok) ==
    /\ program = "Functions"
    /\ call.fn = "Neo4jUtils"
    /\ id \in 1..Len(call.calls)
    /\ call.calls[id].fn = "testConnection"
    /\ call.calls[id].pc # "returned"
    /\ LET c == call.calls[id]
           next == CASE c.pc = "driverClose" -> [c |-> DriverClosed(c, ok), log |-> <<>>]
                     [] ~ok -> Caught(c, id)
                     [] c.pc = "run" -> [c |-> [c EXCEPT !.pc = "sessionClose"], log |-> <<>>]
                     [] OTHER -> [c |-> [c EXCEPT !.pc = "driverClose", !.result = "success"],
                                  log |-> <<>>]
       IN call' = [call EXCEPT !.calls[id] = next.c, !.log = @ \o next.log]
    /\ UNCHANGED <<srvVars, cfgVars>>

\* Neo4jUtils.cleanupVectorStore: the call it waits for returns or throws:
\* the DROP INDEX (logged either way), the count query (a count above 0 is
\* logged), session.close(), then driver.close().
CleanupVectorStore(id, ok, nodeCount) ==
    /\ program = "Functions"
    /\ call.fn = "Neo4jUtils"
    /\ id \in 1..Len(call.calls)
    /\ call.calls[id].fn = "cleanupVectorStore"
    /\ call.calls[id].pc # "returned"
    /\ (call.calls[id].pc # "count" \/ ~ok) => nodeCount = 0
    /\ LET c == call.calls[id]
           next ==
             CASE c.pc = "driverClose" -> [c |-> DriverClosed(c, ok), log |-> <<>>]
               [] c.pc = "drop" ->
                    [c |-> [c EXCEPT !.pc = "count"],
                     log |-> IF ok THEN <<LogEntry("log", "Dropped existing vector index", id)>>
                             ELSE <<LogEntry("log",
                                        "Vector index did not exist or could not be dropped",
                                        id)>>]
               [] ~ok -> Caught(c, id)
               [] c.pc = "count" ->
                    [c |-> [c EXCEPT !.pc = "sessionClose"],
                     log |-> IF nodeCount > 0
                             THEN <<LogEntry("log", "Found " \o ToText(nodeCount)
                                                    \o " existing document nodes", id)>>
                             ELSE <<>>]
               [] OTHER -> [c |-> [c EXCEPT !.pc = "driverClose", !.result = "resolved"],
                            log |-> <<>>]
       IN call' = [call EXCEPT !.calls[id] = next.c, !.log = @ \o next.log]
    /\ UNCHANGED <<srvVars, cfgVars>>

\* Neo4jUtils.getDatabaseInfo: the call it waits for returns or throws: the
\* version query, the statistics query, session.close(), then driver.close().
GetDatabaseInfo(id, ok) ==
    /\ program = "Functions"
    /\ call.fn = "Neo4jUtils"
    /\ id \in 1..Len(call.calls)
    /\ call.calls[id].fn = "getDatabaseInfo"
    /\ call.calls[id].pc # "returned"
    /\ LET c == call.calls[id]
           next == CASE c.pc = "driverClose" -> [c |-> DriverClosed(c, ok), log |-> <<>>]
                     [] ~ok -> Caught(c, id)
                     [] c.pc = "versions" -> [c |-> [c EXCEPT !.pc = "stats"], log |-> <<>>]
                     [] c.pc = "stats" -> [c |-> [c EXCEPT !.pc = "sessionClose"], log |-> <<>>]
                     [] OTHER -> [c |-> [c EXCEPT !.pc = "driverClose", !.result = "info"],
                                  log |-> <<>>]
       IN call' = [call EXCEPT !.calls[id] = next.c, !.log = @ \o next.log]
    /\ UNCHANGED <<srvVars, cfgVars>>

InitUtils == InitClean \/ InitDriver

NextUtils ==
    \/ NextClean
    \/ \E fn \in DriverFunctions, opened \in DriverOutcomes : CallDriverFunction(fn, opened)
    \/ \E id \in 1..MaxCalls, ok \in BOOLEAN : TestConnection(id, ok)
    \/ \E id \in 1..MaxCalls, ok \in BOOLEAN, nodeCount \in NodeCounts :
          CleanupVectorStore(id, ok, nodeCount)
    \/ \E id \in 1..MaxCalls, ok \in BOOLEAN : GetDatabaseInfo(id, ok)

UtilsSpec == InitUtils /\ [][NextUtils]_vars

\* ==================================================================
\* createThinkingPrompt and the chat handlers' enableThinking (Server.js)
\* ==================================================================

\* The default prompts of the two chat handlers, a prompt from the settings,
\* and the text createThinkingPrompt adds; a prompt is a sequence of these.
BeforeRagPrompt == "What is {topic}? Provide a comprehensive but concise explanation."
RagPrompt == "Answer the question based only on the following context: ..."
CustomPrompt == "Explain {topic}."
ThinkingSuffix == "\n\nThink step by step and show your reasoning process. ..."
BasePrompts ==
    [handler \in {"before-rag", "with-rag"} |->
        IF handler = "before-rag" THEN {<<BeforeRagPrompt>>, <<CustomPrompt>>, <<>>}
        ELSE {<<RagPrompt>>, <<CustomPrompt>>, <<>>}]

\* What req.body can hold as enableThinking; Undefined when it has no such key.
ThinkingFlags ==
    {Undefined, Bool("true"), Bool("false"), JsNull, Num("0"), Num("1"), Str(""), Str("false")}

\* Variant: a parameter that is left out is false.
DefaultFalse(v) == IF v = Undefined THEN Bool("false") ELSE v
\* enableThinking = true, as the default of a destructuring and of a parameter
DefaultTrue(v) == IF v = Undefined THEN Bool("true") ELSE v

\* createThinkingPrompt(originalPrompt, enableThinking = true)
CreateThinkingPrompt(originalPrompt, enableThinking) ==
    IF ~TruthyValue(DefaultTrue(enableThinking)) THEN originalPrompt
    ELSE originalPrompt \o <<ThinkingSuffix>>

InitPrompt ==
    /\ program = "Functions"
    /\ ModuleLoaded
    /\ ConfigOff
    /\ \E handler \in {"before-rag", "with-rag"}, flag \in ThinkingFlags :
       \E basePrompt \in BasePrompts[handler] :
          call = [fn |-> "createThinkingPrompt", stage |-> "request", handler |-> handler,
                  body |-> flag, enableThinking |-> Undefined, basePrompt |-> basePrompt,
                  promptTemplate |-> <<>>]

\* const { topic, enableThinking = true } = req.body
Destructure ==
    /\ program = "Functions"
    /\ call.fn = "createThinkingPrompt"
    /\ call.stage = "request"
    /\ call' = [call EXCEPT !.stage = "destructured", !.enableThinking = DefaultTrue(call.body)]
    /\ UNCHANGED <<srvVars, cfgVars>>

\* const promptTemplate = createThinkingPrompt(basePrompt, enableThinking)
MakePrompt ==
    /\ program = "Functions"
    /\ call.fn = "createThinkingPrompt"
    /\ call.stage = "destructured"
    /\ call' = [call EXCEPT !.stage = "prompted",
                            !.promptTemplate = CreateThinkingPrompt(call.basePrompt,
                                                                    call.enableThinking)]
    /\ UNCHANGED <<srvVars, cfgVars>>

NextPrompt ==
    \/ Destructure
    \/ MakePrompt

PromptSpec == InitPrompt /\ [][NextPrompt]_vars

\* ==================================================================
\* GET /api/config for two sets of sources that differ in one secret
\* ==================================================================

\* The two values of the secret, the sensitive keys, and the places a
\* source can give the secret in.
Secrets == <<"secret-1", "secret-2">>
SecretKeys == {"NEO4J_PASSWORD", "api_key"}
SecretPlaces(key) ==
    {"top", "section", "local"} \cup (IF key \in DOMAIN EnvMapping THEN {"env"} ELSE {})

\* The sources with the secret written at the place: at the top level or in
\* the module section of ../config.json, in ../configs/static_settings.JSON,
\* or in the environment variable of the key.
WithSecret(fs, place, key, secret) ==
    LET p == fs.parents[1]
        top == IF p.status = "ok" THEN p.top ELSE EmptyMap
        given == One(key, Str(secret))
    IN  [files |->
            CASE place = "top" ->
                   [fs EXCEPT !.parents[1] =
                        Parsed(p.name, given, p.status = "ok" /\ p.hasSection, p.section)]
              [] place = "section" ->
                   [fs EXCEPT !.parents[1] = Parsed(p.name, top, TRUE, given)]
              [] place = "local" ->
                   [fs EXCEPT !.staticSettings =
                        Parsed("static_settings.JSON", given, FALSE, EmptyMap)]
              [] OTHER -> fs,
         env |-> IF place = "env" THEN One(EnvMapping[key], secret) ELSE NoEnv]

InitSecret ==
    /\ program = "Functions"
    /\ ModuleLoaded
    /\ ConfigOff
    /\ \E key \in SecretKeys :
       \E place \in SecretPlaces(key), fs \in FileSystems(key, 1, {Str("static_settings.JSON")}) :
          call = [fn |-> "getSafeConfig", stage |-> "sources", key |-> key, place |-> place,
                  sources |-> <<WithSecret(fs, place, key, Secrets[1]),
                                WithSecret(fs, place, key, Secrets[2])>>,
                  safe |-> <<EmptyMap, EmptyMap>>]

\* The module is loaded with each of the two sets of sources, and GET
\* /api/config answers with config.getSafeConfig().
ServeSafeConfig ==
    /\ program = "Functions"
    /\ call.fn = "getSafeConfig"
    /\ call.stage = "sources"
    /\ call' = [call EXCEPT
                  !.stage = "served",
                  !.safe = [i \in 1..2 |->
                              GetSafeConfig(LoadConfig(EmptyMap, call.sources[i].files,
                                                       call.sources[i].env))]]
    /\ UNCHANGED <<srvVars, cfgVars>>

SecretSpec == InitSecret /\ [][ServeSafeConfig]_vars

\* ==================================================================
\* The connection settings of Server.js
\* ==================================================================

InitSettings ==
    /\ program = "Server"
    /\ ModuleLoaded
    /\ cfgKey \in ConnectionKeys
    /\ \E f \in LocalFiles(cfgKey, "static_settings.JSON", {Str("static_settings.JSON")}) :
          files = [NoFiles EXCEPT !.staticSettings = f]
    /\ env \in Environments(cfgKey)
    /\ cfgPhase = "new"
    /\ config = EmptyMap
    /\ cfgOut = NoOut
    /\ call = [fn |-> "settings", constants |-> EmptyMap, atStart |-> EmptyMap]

\* Server.js is loaded: require('./config'), config.validate() or
\* process.exit(1), then the constants.
LoadServer ==
    /\ call.fn = "settings"
    /\ cfgPhase = "new"
    /\ LET loaded == LoadConfig(EmptyMap, files, env) IN
       /\ config' = loaded
       /\ IF Validate(loaded)
          THEN /\ cfgPhase' = "loaded"
               /\ call' = [call EXCEPT
                             !.constants = [k \in ConnectionKeys |-> Get(loaded, k, Undefined)],
                             !.atStart = loaded]
               /\ last' = Event("loadServer", Auto, 0, NoMsg, "none", TRUE, Idle)
               /\ UNCHANGED phase
          ELSE /\ cfgPhase' = "exited"
               /\ phase' = "exited"
               /\ last' = Event("loadServer", Auto, 0, NoMsg, "none", FALSE, Idle)
               /\ UNCHANGED call
    /\ UNCHANGED <<files, env, cfgKey, cfgOut>>
    /\ UNCHANGED <<program, vectorstore, retriever, chatModel, isInitializing,
                   initializationError, req, populated, failedRuns, ollamaTested>>

\* While the server runs, an environment variable of its process is given
\* another text.
ChangeEnv(name, text) ==
    /\ call.fn = "settings"
    /\ cfgPhase = "loaded"
    /\ IF name \in DOMAIN env THEN env[name] # text ELSE TRUE
    /\ env' = [n \in DOMAIN env \cup {name} |-> IF n = name THEN text ELSE env[n]]
    /\ UNCHANGED <<files, cfgKey, cfgPhase, config, cfgOut>>
    /\ UNCHANGED <<srvVars, fnVars>>

\* While the server runs, ../configs/static_settings.JSON is written anew.
WriteStaticSettings(text) ==
    /\ call.fn = "settings"
    /\ cfgPhase = "loaded"
    /\ LET written == Parsed("static_settings.JSON", One(cfgKey, Str(text)), FALSE, EmptyMap)
       IN /\ files.staticSettings # written
          /\ files' = [files EXCEPT !.staticSettings = written]
    /\ UNCHANGED <<env, cfgKey, cfgPhase, config, cfgOut>>
    /\ UNCHANGED <<srvVars, fnVars>>

\* POST /api/config/reload: config.reload(), answered with getSafeConfig().
\* The handler answers in the turn the request arrives in.
ReloadRequest ==
    /\ call.fn = "settings"
    /\ program = "Server"
    /\ Listening
    /\ config' = LoadConfig(config, files, env)
    /\ last' = Event("reload", 1, 200, MsgOk, "none", TRUE,
                     [Idle EXCEPT !.op = "reload", !.entry = Snapshot,
                                  !.options = [kind |-> "reload",
                                               config |-> GetSafeConfig(config')]])
    /\ UNCHANGED <<files, env, cfgKey, cfgPhase, cfgOut>>
    /\ UNCHANGED <<program, phase, vectorstore, retriever, chatModel, isInitializing,
                   initializationError, req, populated, failedRuns, ollamaTested>>
    /\ UNCHANGED fnVars

\* The server with its settings: the load of Server.js, the listen callback
\* and one client's initialization requests turn by turn, health requests,
\* and reloads and changes of the sources in between.
SettingsCallers == {Auto, 1}
SettingsOutcomes == {LoadFailed, [ok |-> TRUE, chunks |-> 1]}

NextSettings ==
    \/ LoadServer
    \/ \E text \in EnvTexts : ChangeEnv(cfgKey, text)
    \/ WriteStaticSettings("rewritten")
    \/ ReloadRequest
    \/ Listen
    \/ InitializeRequest(1)
    \/ \E c \in SettingsCallers, ok \in BOOLEAN : ConnectionTest(c, ok)
    \/ \E c \in SettingsCallers, out \in SettingsOutcomes : LoadUrl(c, out)
    \/ \E c \in SettingsCallers, ok \in BOOLEAN : StoreCreated(c, ok)
    \/ Health
    \/ Sigint
    \/ \E ok \in BOOLEAN : StoreClosed(ok)

SettingsSpec == InitSettings /\ [][NextSettings]_vars

\* ==================================================================
\* App (App.js): the 'Without RAG' panel
\* ==================================================================

\* What the user types in the input, and the texts trim() leaves empty.
Topics == {"", "  ", "topic a", "topic b"}
BlankTopic(text) == text \in {"", "  "}

\* What GET /api/health can tell the page, and what a request can end in.
StatusReports ==
    {[status |-> "online", ragInitialized |-> TRUE],
     [status |-> "online", ragInitialized |-> FALSE],
     [status |-> "offline", ragInitialized |-> FALSE]}
Arrivals == {"ok", "error", "network"}

\* disabled={systemStatus.status !== 'online' || !systemStatus.ragInitialized}
InputDisabled(st) == st.systemStatus.status # "online" \/ ~st.systemStatus.ragInitialized
\* disabled={loading.beforeRag || systemStatus.status !== 'online' || ...}
ButtonDisabled(st) == st.loading \/ InputDisabled(st)

\* The state of the component after its first render.
InitApp ==
    /\ program = "App"
    /\ ModuleLoaded
    /\ ConfigOff
    /\ call = [fn |-> "App",
               systemStatus |-> [status |-> "checking", ragInitialized |-> FALSE],
               beforeRagInput |-> "",
               loading |-> FALSE,
               response |-> [kind |-> "null"],
               inFlight |-> {},
               submitted |-> 0,
               lastTopic |-> ""]

\* chatBeforeRAG() up to its fetch: nothing for a blank input, else
\* loading.beforeRag is set and the request leaves.
ChatBeforeRAG(st) ==
    IF BlankTopic(st.beforeRagInput) THEN st
    ELSE [st EXCEPT !.loading = TRUE,
                    !.inFlight = @ \cup {[seq |-> st.submitted + 1,
                                          topic |-> st.beforeRagInput]},
                    !.submitted = @ + 1,
                    !.lastTopic = st.beforeRagInput]

\* checkStatus() ends: the answer of GET /api/health, or no answer.
CheckStatus(report) ==
    /\ call.fn = "App"
    /\ call.systemStatus # report
    /\ call' = [call EXCEPT !.systemStatus = report]
    /\ UNCHANGED <<srvVars, cfgVars>>

\* onChange of the input
TypeTopic(text) ==
    /\ call.fn = "App"
    /\ ~InputDisabled(call)
    /\ call.beforeRagInput # text
    /\ call' = [call EXCEPT !.beforeRagInput = text]
    /\ UNCHANGED <<srvVars, cfgVars>>

\* onClick of the button
ClickAsk ==
    /\ call.fn = "App"
    /\ ~ButtonDisabled(call)
    /\ ~BlankTopic(call.beforeRagInput)
    /\ call.submitted < MaxSubmissions
    /\ call' = ChatBeforeRAG(call)
    /\ UNCHANGED <<srvVars, cfgVars>>

\* onKeyPress of the input with the Enter key: handleKeyPress calls the action.
PressEnter ==
    /\ call.fn = "App"
    /\ ~InputDisabled(call)
    /\ ~BlankTopic(call.beforeRagInput)
    /\ call.submitted < MaxSubmissions
    /\ call' = ChatBeforeRAG(call)
    /\ UNCHANGED <<srvVars, cfgVars>>

\* The fetch of a request ends: chatBeforeRAG goes on with setResponses and,
\* in finally, resets loading.beforeRag.
Arrive(request, how) ==
    /\ call.fn = "App"
    /\ request \in call.inFlight
    /\ call' = [call EXCEPT !.inFlight = @ \ {request},
                            !.response = [kind |-> how, seq |-> request.seq,
                                          topic |-> request.topic],
                            !.loading = FALSE]
    /\ UNCHANGED <<srvVars, cfgVars>>

NextApp ==
    \/ \E report \in StatusReports : CheckStatus(report)
    \/ \E text \in Topics : TypeTopic(text)
    \/ ClickAsk
    \/ PressEnter
    \/ \E request \in call.inFlight, how \in Arrivals : Arrive(request, how)

AppSpec == InitApp /\ [][NextApp]_vars

\* ==================================================================
\* Properties
\* ==================================================================

\* initializeRAG runs that are between their first await and their end.
RunsInProgress ==
    {c \in Callers : /\ req[c].op \in {"listen", "initialize"}
                     /\ req[c].pc \in {"connTest", "loading", "store"}}

\* C11: the flag is true exactly while an initializeRAG run is in progress,
\* and, every awaited call returning or throwing, a run that set the flag
\* resets it to false, whether it succeeds or fails; a run that process.exit
\* ends gets no call back and resets nothing.
C11_FlagClearedInCleanup ==
    /\ [](isInitializing <=> RunsInProgress # {})
    /\ (isInitializing ~> (~isInitializing \/ phase = "exited"))

\* A run has failed and one has succeeded, and the flag is down after both.
C11_Witness ==
    /\ failedRuns > 0
    /\ last.init = "resolved"
    /\ ~isInitializing

\* The indexes of the loads that succeeded / that threw.
OkIdx(f) == {k \in 1..Len(f) : f[k].ok}
BadIdx(f) == {k \in 1..Len(f) : ~f[k].ok}

\* docs holds exactly the documents of the loads that succeeded, in URL order,
\* and errors exactly one entry for each load that threw, in URL order.
Accounted(r) ==
    /\ Len(r.docs) = Cardinality(OkIdx(r.fetched))
    /\ \A j \in 1..Len(r.docs) :
          /\ r.docs[j].source \in OkIdx(r.fetched)
          /\ r.docs[j].chunks = r.fetched[r.docs[j].source].chunks
          /\ \A k \in 1..Len(r.docs) : j < k => r.docs[j].source < r.docs[k].source
    /\ Len(r.errors) = Cardinality(BadIdx(r.fetched))
    /\ \A j \in 1..Len(r.errors) :
          /\ r.errors[j] \in BadIdx(r.fetched)
          /\ \A k \in 1..Len(r.errors) : j < k => r.errors[j] < r.errors[k]

\* Every URL of the batch has been fetched.
BatchComplete(r) == Len(r.fetched) = r.n

\* The turn just taken ended an ingestion (of initializeRAG, of startServer or
\* of POST /api/add-urls), with last.r its locals.
IngestionEnded ==
    \/ last.ev \in {"load", "addLoad", "startLoad"} /\ req[last.caller].pc = "idle"
    \/ last.ev \in {"store", "added", "startStore"}

\* C1: an initializeRAG call made while isInitializing is true returns at
\* once: it starts nothing, changes no state, and a POST /api/initialize
\* caller is answered 200; so at most one run is in progress at any time.
C1_ReentrancyGuard ==
    /\ Cardinality(RunsInProgress) <= 1
    /\ (/\ last.ev \in {"listen", "initialize"}
        /\ last.init \in {"started", "skipped"}
        /\ last.r.entry.isInitializing)
       => /\ last.init = "skipped"
          /\ last.caller # Auto => last.status = 200
          /\ req[last.caller].pc = "idle"
          /\ Snapshot = last.r.entry

C1_Witness ==
    /\ last.ev = "initialize"
    /\ last.init = "skipped"
    /\ Cardinality(RunsInProgress) = 1

\* C2: a POST /api/initialize handled when the vector store is set is answered
\* 'already initialized', starts no run and changes no state; the vector store
\* is populated successfully at most once.
C2_ReadyShortCircuits ==
    /\ populated <= 1
    /\ (last.ev = "initialize" /\ last.r.entry.vectorstore # NULL)
       => /\ last.status = 200
          /\ last.msg = MsgAlready
          /\ last.init = "none"
          /\ req[last.caller].pc = "idle"
          /\ Snapshot = last.r.entry

C2_Witness ==
    /\ last.ev = "initialize"
    /\ last.msg = MsgAlready
    /\ populated = 1

\* C3: when an initialization attempt fails, the message is in
\* initializationError, isInitializing is false, and the chat model, the vector
\* store and the retriever are as they were before the attempt.
C3_FailureRestoresState ==
    (program = "Server" /\ last.init = "rejected")
    => /\ initializationError = last.msg
       /\ ~isInitializing
       /\ vectorstore = last.r.entry.vectorstore
       /\ retriever = last.r.entry.retriever
       /\ chatModel = last.r.entry.chatModel

\* C4: a with-rag request with a question, handled while the retriever is not
\* set, is answered 503 and invokes neither the retriever nor the chat model.
C4_WithRagNotReady ==
    (last.ev = "with-rag" /\ Truthy(last.r.field) /\ last.r.entry.retriever = NULL)
    => /\ last.status = 503
       /\ last.msg = MsgRagNotInit
       /\ last.r.retrieverCalls = 0
       /\ last.r.chatCalls = 0
       /\ req[last.caller].pc = "idle"

C4_Witness ==
    /\ last.ev = "with-rag"
    /\ last.status = 503
    /\ last.r.entry.isInitializing
    /\ last.r.entry.chatModel # NULL

\* C5: a before-rag request with a topic, handled before any connection test
\* has succeeded, is answered 503 and does not invoke the chat model.
C5_BeforeRagNotConnected ==
    (last.ev = "before-rag" /\ Truthy(last.r.field) /\ ~last.r.entry.tested)
    => /\ last.status = 503
       /\ last.msg = MsgChatNotInit
       /\ last.r.chatCalls = 0

\* C6: a chat request without its required field is answered 400 whatever the
\* service state; nothing is invoked and no state changes.
C6_MissingFieldIs400 ==
    (last.ev \in {"before-rag", "with-rag"} /\ ~Truthy(last.r.field))
    => /\ last.status = 400
       /\ last.r.retrieverCalls = 0
       /\ last.r.chatCalls = 0
       /\ req[last.caller].pc = "idle"
       /\ Snapshot = last.r.entry

C6_Witness ==
    /\ last.ev = "with-rag"
    /\ last.status = 400
    /\ last.r.entry.retriever = NULL
    /\ last.r.entry.isInitializing

\* C7: a load that throws does not end the batch: in the loop one URL after
\* the other is fetched, after it every URL has been fetched, and throughout
\* docs are the documents of the successful loads in URL order and errors
\* name each failing URL once.
C7_FetchFailuresIsolated ==
    /\ \A c \in Callers :
          /\ Accounted(req[c])
          /\ req[c].pc = "loading" => Len(req[c].fetched) = req[c].i - 1
          /\ req[c].pc \in {"store", "adding"} => BatchComplete(req[c])
    /\ Accounted(last.r)
    /\ IngestionEnded => BatchComplete(last.r)

C7_Witness ==
    \E c \in Callers :
        /\ req[c].pc \in {"store", "adding"}
        /\ ~req[c].fetched[1].ok
        /\ req[c].fetched[2].ok
        /\ req[c].errors = <<1>>

\* C8: an ingestion all of whose URLs fail ends in failure, not in a success
\* answer, and calls neither the splitter nor the vector store.
C8_AllFailedIsFailure ==
    (/\ IngestionEnded
     /\ last.r.n >= 1
     /\ BatchComplete(last.r)
     /\ OkIdx(last.r.fetched) = {})
    => /\ ~last.r.splitCalled
       /\ ~last.r.storeCalled
       /\ last.status # 200
       /\ last.init = "rejected" \/ last.status >= 400

\* C9: an initialization attempt whose pages give no chunk at all fails with
\* the no-content error; so a set vector store was handed at least one chunk.
C9_ZeroChunksFails ==
    program = "Server" =>
       /\ (/\ IngestionEnded
           /\ Len(SplitDocuments(last.r.docs)) = 0)
          => (last.init = "rejected" /\ last.msg = ErrNoDocs)
       /\ vectorstore # NULL => vectorstore.chunks >= 1

\* C10: a failed run leaves isInitializing false; a POST /api/initialize
\* handled with the flag false and no vector store starts a fresh run
\* (initializationError null, locals empty, connection test pending); a run
\* fails only in a step whose external call failed, and the run whose
\* vector-store creation succeeds leaves the service Ready.
C10_RetryAfterFailure ==
    /\ (program = "Server" /\ last.init = "rejected") => ~isInitializing
    /\ (/\ last.ev = "initialize"
        /\ last.r.entry.vectorstore = NULL
        /\ ~last.r.entry.isInitializing)
       => /\ last.init = "started"
          /\ isInitializing
          /\ initializationError = NoError
          /\ req[last.caller].pc = "connTest"
          /\ req[last.caller].fetched = <<>>
          /\ req[last.caller].docs = <<>>
    /\ (last.ev \in {"connTest", "load", "store"} /\ last.ok) => last.init # "rejected"
    /\ (last.ev = "store" /\ last.ok)
       => /\ last.init = "resolved"
          /\ vectorstore # NULL
          /\ retriever # NULL
          /\ ~isInitializing
          /\ last.caller # Auto => last.status = 200

C10_Witness ==
    /\ last.ev = "store"
    /\ last.init = "resolved"
    /\ last.caller # Auto
    /\ failedRuns >= 1
    /\ vectorstore # NULL

\* ------------------------------------------------------ ConfigLoader

\* cfgOut.fresh: the map was computed by the call just made, or has not
\* changed since, and no source has changed since it was computed.

\* The environment sets the variable the table reads for k / sets it to a
\* text that is not empty.
EnvDefines(k) == k \in DOMAIN EnvMapping /\ EnvMapping[k] \in DOMAIN env
EnvNonEmpty(k) == EnvDefines(k) /\ env[EnvMapping[k]] # ""

\* The local config file: the first candidate that exists and parses.
LocalIndex == {i \in 1..3 : LocalConfigPaths(files)[i].status = "ok"}
HasLocalFile == LocalIndex # {}
TheLocalFile ==
    LocalConfigPaths(files)[CHOOSE i \in LocalIndex : \A j \in LocalIndex : i <= j]
LocalDefines(k) == HasLocalFile /\ k \in DOMAIN TheLocalFile.top

\* The parent levels the walk visits, and those whose file writes k.
Visited == 1..Min(MaxLevels, Len(files.parents))
ParentDefinesAt(l, k) ==
    /\ files.parents[l].status = "ok"
    /\ k \in DOMAIN files.parents[l].top \cup DOMAIN files.parents[l].section
ParentDefines(k) == \E l \in Visited : ParentDefinesAt(l, k)
ParentValues(k) ==
    {files.parents[l].top[k] : l \in {x \in Visited : ParentDefinesAt(x, k)
                                          /\ k \in DOMAIN files.parents[x].top}} \cup
    {files.parents[l].section[k] : l \in {x \in Visited : ParentDefinesAt(x, k)
                                          /\ k \in DOMAIN files.parents[x].section}}
\* The value the parent files give k: that of the farthest file that writes
\* it, its module section before its top level.
ParentValue(k) ==
    LET l == CHOOSE x \in Visited :
                 /\ ParentDefinesAt(x, k)
                 /\ \A y \in Visited : ParentDefinesAt(y, k) => y <= x
    IN IF k \in DOMAIN files.parents[l].section THEN files.parents[l].section[k]
       ELSE files.parents[l].top[k]

\* The value of k by precedence, an environment variable counting when it
\* is set (setOnly) or when it is set and not empty.
ByPrecedence(k, fromEnv) ==
    IF fromEnv THEN Str(env[EnvMapping[k]])
    ELSE IF LocalDefines(k) THEN TheLocalFile.top[k]
    ELSE IF ParentDefines(k) THEN ParentValue(k)
    ELSE Lookup(GetDefaults, k)

\* How many of the four sources define k.
Defining(k, fromEnv) ==
    Cardinality({x \in {"env", "local", "parent", "default"} :
        \/ x = "env" /\ fromEnv
        \/ x = "local" /\ LocalDefines(k)
        \/ x = "parent" /\ ParentDefines(k)
        \/ x = "default" /\ k \in DOMAIN GetDefaults})

\* C12 as stated: after loadConfig a key defined by more than one source
\* has the value of the highest-precedence source that defines it
\* (environment, local file, parent files, defaults), an environment
\* variable defining its key whenever it is set.
C12_HighestPrecedenceWins ==
    (cfgOut.fresh /\ Defining(cfgKey, EnvDefines(cfgKey)) > 1)
        => Lookup(config, cfgKey) = ByPrecedence(cfgKey, EnvDefines(cfgKey))

\* C12 amended: the same, an environment variable defining its key when it
\* is set to a text that is not empty.
C12_HighestPrecedenceWinsNonEmptyEnv ==
    (cfgOut.fresh /\ Defining(cfgKey, EnvNonEmpty(cfgKey)) > 1)
        => Lookup(config, cfgKey) = ByPrecedence(cfgKey, EnvNonEmpty(cfgKey))

\* All four sources define OLLAMA_HOST and the environment wins.
C12_Witness ==
    /\ cfgOut.op = "load"
    /\ cfgKey = "OLLAMA_HOST"
    /\ EnvNonEmpty(cfgKey) /\ LocalDefines(cfgKey) /\ ParentDefines(cfgKey)
    /\ config[cfgKey] = Str("from-env")

\* C13 as stated: validate() fails exactly when a required key is not a key
\* of the merged map.
C13_FailsIffAbsent ==
    cfgOut.op = "validate" => (cfgOut.ok <=> Required \subseteq DOMAIN config)

\* C13 amended: validate() fails exactly when a required key is not a key of
\* the merged map or has a falsy value (empty string, 0, false, null).
C13_FailsIffAbsentOrFalsy ==
    cfgOut.op = "validate" =>
        /\ cfgOut.ok <=> \A k \in Required : k \in DOMAIN config /\ config[k] \notin FalsyValues
        /\ cfgOut.missing = {k \in Required : k \notin DOMAIN config \/ config[k] \in FalsyValues}

\* validate() has thrown though the three required keys are keys of the map.
C13_Witness ==
    /\ cfgOut.op = "validate"
    /\ ~cfgOut.ok
    /\ Required \subseteq DOMAIN config
    /\ config["OLLAMA_HOST"] = Str("")

\* No source but the parent file of level l defines k.
OnlyParentDefines(l, k) ==
    /\ ~EnvDefines(k)
    /\ k \notin DOMAIN files.staticSettings.top
    /\ k \notin DOMAIN files.configsConfig.top
    /\ k \notin DOMAIN GetDefaults
    /\ \A x \in Visited \ {l} : ~ParentDefinesAt(x, k)

\* C14: when a parent config file defines a key at top level and in its
\* 'karl-chat' section and no other source defines the key, the resolved
\* value is that of the module section; for every discovered parent file.
C14_ModuleSectionWins ==
    cfgOut.fresh =>
        \A l \in Visited :
            (/\ files.parents[l].status = "ok"
             /\ cfgKey \in DOMAIN files.parents[l].top
             /\ cfgKey \in DOMAIN files.parents[l].section
             /\ OnlyParentDefines(l, cfgKey))
                => Lookup(config, cfgKey) = files.parents[l].section[cfgKey]

\* C15: the local layer merges the first candidate that exists and parses,
\* and nothing of the other candidates.
C15_FirstLocalCandidateOnly ==
    cfgOut.fresh =>
        LET base == LoadParentConfigs(GetDefaults, files) IN
        config = LoadEnvironmentConfig(
                     IF HasLocalFile THEN Merge(base, ObjectOf(TheLocalFile)) ELSE base, env)

\* static_settings.JSON does not parse, configs/config.json and
\* ../config.json both write the key: the value is that of configs/config.json.
C15_Witness ==
    /\ cfgOut.op = "load"
    /\ files.staticSettings.status = "malformed"
    /\ cfgKey \in DOMAIN files.configsConfig.top
    /\ cfgKey \in DOMAIN files.parents[1].top
    /\ ~EnvDefines(cfgKey)
    /\ config[cfgKey] = Str("configs/config.json")

\* The files on disk without those that do not parse.
WithoutMalformed(fs) ==
    LET drop(f) == IF f.status = "malformed" THEN Absent(f.name) ELSE f IN
    [parents |-> [l \in 1..Len(fs.parents) |-> drop(fs.parents[l])],
     staticSettings |-> drop(fs.staticSettings),
     configsConfig |-> drop(fs.configsConfig)]

\* C16: a config file that does not parse is skipped: the loaded map is the
\* one the same sources give without that file.
C16_MalformedIsSkipped ==
    cfgOut.fresh => config = LoadConfig(EmptyMap, WithoutMalformed(files), env)

\* ../config.json and static_settings.JSON do not parse, and the value comes
\* from ../../config.json, visited after ../config.json.
C16_Witness ==
    /\ cfgOut.op = "load"
    /\ Len(files.parents) > 1
    /\ files.parents[1].status = "malformed"
    /\ files.staticSettings.status = "malformed"
    /\ config[cfgKey] = Str("P2.top")

\* Two characters are the same letter, whatever their case.
SmallLetters == "abcdefghijklmnopqrstuvwxyz"
CapitalLetters == "ABCDEFGHIJKLMNOPQRSTUVWXYZ"
SameLetter(a, b) ==
    \/ a = b
    \/ \E n \in 1..Len(SmallLetters) :
          {a, b} = {SubSeq(SmallLetters, n, n), SubSeq(CapitalLetters, n, n)}

\* The name holds the marker at some position, compared case-insensitively.
HoldsMarker(name, marker) ==
    \E i \in 0..(Len(name) - Len(marker)) :
       \A j \in 1..Len(marker) :
          SameLetter(SubSeq(name, i + j, i + j), SubSeq(marker, j, j))

\* The markers of a password, a secret and an API key, and the markers
\* getSafeConfig lists.
SensitiveMarkers == {"password", "secret", "api_key"}
ListedMarkers == {"neo4j_password", "secret", "api_key"}

\* The safe map has the keys of the map, '***' under the keys whose name
\* holds one of the markers and the real value under every other key.
MasksExactly(markers) ==
    /\ DOMAIN cfgOut.safe = DOMAIN config
    /\ \A k \in DOMAIN config :
          cfgOut.safe[k] = IF \E m \in markers : HoldsMarker(k, m) THEN Str("***")
                           ELSE config[k]

\* C17: getSafeConfig() returns a map with the keys of the merged map, '***'
\* under every key whose name holds a password, secret or api-key marker in
\* any letter case, and the real value under every other key.
C17_SafeConfigMasksSensitive ==
    cfgOut.op = "getSafeConfig" => MasksExactly(SensitiveMarkers)

\* What getSafeConfig does: it masks the keys whose name holds NEO4J_PASSWORD,
\* API_KEY or SECRET, in any letter case and inside a longer name, and no
\* other key.
SafeConfigMasksListed ==
    cfgOut.op = "getSafeConfig" => MasksExactly(ListedMarkers)

\* C18: reload() recomputes the map from the current sources: each key has
\* the value its sources give it now, a key no source writes any longer has
\* its default or is gone, and with unchanged sources the map is unchanged.
C18_ReloadFromScratch ==
    cfgOut.op = "reload" =>
        /\ Lookup(config, cfgKey) = ByPrecedence(cfgKey, EnvNonEmpty(cfgKey))
        /\ \A k \in DOMAIN config \ {cfgKey, ModuleName} :
              k \in DOMAIN GetDefaults /\ config[k] = GetDefaults[k]
        /\ DOMAIN GetDefaults \subseteq DOMAIN config
        /\ ModuleName \in DOMAIN config =>
              \/ \E l \in Visited : files.parents[l].status = "ok" /\ files.parents[l].hasSection
              \/ HasLocalFile /\ TheLocalFile.hasSection
        /\ cfgOut.unchanged => config = cfgOut.before

\* The files that wrote api_key were deleted: after reload() the key is gone.
C18_Witness ==
    /\ cfgOut.op = "reload"
    /\ cfgKey = "api_key"
    /\ cfgKey \in DOMAIN cfgOut.before
    /\ cfgKey \notin DOMAIN config

\* C19: get(key, default) returns the value of the key when the key is in
\* the map, falsy or not, and the default exactly when it is not; the map is
\* as it was.
C19_GetReturnsPresentValue ==
    cfgOut.op = "get" =>
        /\ cfgOut.value = IF cfgOut.key \in DOMAIN cfgOut.before
                          THEN cfgOut.before[cfgOut.key] ELSE cfgOut.dflt
        /\ config = cfgOut.before

\* get of a key whose value is the empty string, with a fallback: the empty
\* string is returned.
C19_Witness ==
    /\ cfgOut.op = "get"
    /\ cfgOut.key \in DOMAIN config
    /\ config[cfgOut.key] = Str("")
    /\ cfgOut.dflt = Str("fallback")
    /\ cfgOut.value = Str("")

\* process.env without the variables the mapping table does not read.
TableOnly(e) == [n \in DOMAIN e \cap {EnvMapping[k] : k \in DOMAIN EnvMapping} |-> e[n]]

\* C20 as stated: every key of the table whose variable is set has that
\* variable's value, and the variables outside the table change nothing.
C20_EnvTableOnly ==
    cfgOut.fresh =>
        /\ \A k \in DOMAIN EnvMapping :
              EnvMapping[k] \in DOMAIN env => Lookup(config, k) = Str(env[EnvMapping[k]])
        /\ config = LoadConfig(EmptyMap, files, TableOnly(env))

\* C20 amended: every key of the table whose variable is set to a text that
\* is not empty has that variable's value, and the variables outside the
\* table change nothing.
C20_EnvTableOnlyNonEmpty ==
    cfgOut.fresh =>
        /\ \A k \in DOMAIN EnvMapping :
              (EnvMapping[k] \in DOMAIN env /\ env[EnvMapping[k]] # "")
                  => Lookup(config, k) = Str(env[EnvMapping[k]])
        /\ config = LoadConfig(EmptyMap, files, TableOnly(env))

\* PORT and SERVER_PORT are both set: SERVER_PORT has the value of PORT.
C20_Witness ==
    /\ cfgOut.op = "load"
    /\ cfgKey = "SERVER_PORT"
    /\ DOMAIN env = {"PORT", "SERVER_PORT"}
    /\ env["SERVER_PORT"] = "from-env"
    /\ LocalDefines(cfgKey)
    /\ config["SERVER_PORT"] = Str("8080")

\* ------------------------------------------------------------------
\* parseThinkingResponse
\* ------------------------------------------------------------------

Least(S) == CHOOSE x \in S : \A y \in S : x <= y
Greatest(S) == CHOOSE x \in S : \A y \in S : x >= y

\* The text without the white space at its two ends.
Stripped(text) ==
    LET solid == {k \in 1..Len(text) : text[k] \notin {Space, BlankLine}} IN
    IF solid = {} THEN <<>> ELSE SubSeq(text, Least(solid), Greatest(solid))

\* The opening tags of the text, in either case, that have a closing tag
\* after them, and the closing tags after the i-th piece.
ClosedOpens(text) ==
    {i \in 1..Len(text) : /\ text[i] \in {Open, OpenUpper}
                          /\ \E j \in (i + 1)..Len(text) : text[j] = Close}
ClosesAfter(text, i) == {j \in (i + 1)..Len(text) : text[j] = Close}
HasBlock(text) == ClosedOpens(text) # {}

\* The text begins with one of the phrases and goes on to a blank line, and
\* what stands before the first blank line has more than 50 characters.
BlankLines(text) == {b \in 2..Len(text) : text[b] = BlankLine}
IntroMatches(text) ==
    /\ text # <<>>
    /\ text[1] \in {Intro1, Intro2, Intro3}
    /\ BlankLines(text) # {}
    /\ Length(SubSeq(text, 1, Least(BlankLines(text)) - 1)) > 50

Parsed1 == call.fn = "parseThinkingResponse" /\ call.stage # "raw"

\* C21: for a raw text that contains a block between <think> and </think>
\* (in either case), the parsed thinking is the trimmed text between the
\* first such pair of tags, the parsed response is the trimmed rest without
\* the tags and what they enclose, and hasThinking is true.
C21_TaggedBlockExtracted ==
    (Parsed1 /\ HasBlock(call.rawResponse)) =>
        LET text == call.rawResponse
            i == Least(ClosedOpens(text))
            j == Least(ClosesAfter(text, i))
        IN  /\ call.first.thinking = JsText(Stripped(SubSeq(text, i + 1, j - 1)))
            /\ call.first.response =
                   Stripped(SubSeq(text, 1, i - 1) \o SubSeq(text, j + 1, Len(text)))
            /\ call.first.hasThinking

\* "<THINK>A</think>B" is parsed into the thinking "A" and the response "B".
C21_Witness ==
    /\ Parsed1
    /\ call.rawResponse = <<OpenUpper, Word, Close, LongWord>>
    /\ call.first = [thinking |-> JsText(<<Word>>), response |-> <<LongWord>>,
                     hasThinking |-> TRUE]

\* C22: for a raw text with no tagged block and no matching introductory
\* phrase, an unclosed <think> included, the parsed thinking is null, the
\* parsed response is the trimmed text, and hasThinking is false.
C22_PlainTextUntouched ==
    (Parsed1 /\ ~HasBlock(call.rawResponse) /\ ~IntroMatches(call.rawResponse)) =>
        /\ call.first.thinking = NullText
        /\ call.first.response = Stripped(call.rawResponse)
        /\ ~call.first.hasThinking

\* A text with a <think> that is never closed is returned trimmed.
C22_Witness ==
    /\ Parsed1
    /\ call.rawResponse = <<Space, Open, Word, Space>>
    /\ call.first = [thinking |-> NullText, response |-> <<Open, Word>>,
                     hasThinking |-> FALSE]

\* C23: parsing the response of a parsed result again gives the same
\* response.
C23_IdempotentOnResponse ==
    (call.fn = "parseThinkingResponse" /\ call.stage = "parsedAgain") =>
        call.second.response = call.first.response

\* ------------------------------------------------------------------
\* Metadata cleaning
\* ------------------------------------------------------------------

Cleaned == call.fn = "cleanMetadata" /\ call.stage = "cleaned"

\* C24: every value of the metadata of a cleaned chunk is a string, a
\* number or a boolean, whether the chunk was cleaned inside initializeRAG
\* or by Neo4jUtils.cleanDocumentMetadata.
C24_MetadataValuesPrimitive ==
    Cleaned =>
        \A k \in DOMAIN call.cleaned.metadata :
            call.cleaned.metadata[k].t \in {"string", "number", "boolean"}

\* C25: a chunk cleaned by initializeRAG on its way to the vector store has
\* a source ('unknown' when the document has none), a generated chunk
\* identifier, a creation timestamp, and a content length that is the
\* length of its text.
C25_DerivedFieldsPresent ==
    (Cleaned /\ call.by = "initializeRAG") =>
        LET metadata == call.cleaned.metadata IN
        /\ "source" \in DOMAIN metadata
        /\ "source" \notin DOMAIN call.doc.metadata => metadata["source"] = MetaStr("unknown")
        /\ {"id", "chunk_id"} \cap DOMAIN metadata # {}
        /\ "created_at" \in DOMAIN metadata
        /\ "content_length" \in DOMAIN metadata
        /\ metadata["content_length"] = MetaNum(ToText(Len(call.cleaned.pageContent)))

\* ------------------------------------------------------------------
\* POST /api/chat/with-rag
\* ------------------------------------------------------------------

\* The texts in their order with a blank line between every two of them.
BlankLineJoined(context, texts) ==
    /\ Len(context) = (IF texts = <<>> THEN 0 ELSE 2 * Len(texts) - 1)
    /\ \A i \in 1..Len(texts) : context[2 * i - 1] = texts[i]
    /\ \A i \in 1..(Len(texts) - 1) : context[2 * i] = "\n\n"

\* C26: a with-rag request that passes its checks invokes the retriever
\* once with the question, the retriever returning the top 4; when the
\* retrieval returns, the context is the retrieved texts in their order
\* joined by a blank line and the chat model is invoked, once and not
\* before; when the retrieval fails the chat model is not invoked and the
\* request is answered 500.
C26_RetrievalPrecedesGeneration ==
    /\ (last.ev = "with-rag" /\ last.status = 0) =>
          /\ retriever # NULL
          /\ retriever.k = 4
          /\ last.r.retrieverCalls = 1
          /\ last.r.query = last.r.field
          /\ last.r.chatCalls = 0
    /\ (last.ev = "retrieved" /\ last.ok) =>
          /\ last.r.retrieverCalls = 1
          /\ last.r.chatCalls = 1
          /\ BlankLineJoined(last.r.context, last.r.retrieved)
    /\ (last.ev = "retrieved" /\ ~last.ok) =>
          /\ last.status = 500
          /\ last.r.chatCalls = 0
    /\ (last.ev = "generated" /\ last.r.op = "with-rag") =>
          /\ last.r.retrieverCalls = 1
          /\ last.r.chatCalls = 1
    /\ \A c \in Requests :
          (req[c].op = "with-rag" /\ req[c].chatCalls > 0) =>
              /\ req[c].pc = "generating"
              /\ req[c].retrieverCalls = 1

\* Two chunks came back: the context is the first, a blank line, the second.
C26_Witness ==
    /\ last.ev = "retrieved"
    /\ last.ok
    /\ last.r.retrieved = <<"chunk b", "chunk a">>
    /\ last.r.context = <<"chunk b", "\n\n", "chunk a">>
    /\ last.r.chatCalls = 1

\* ------------------------------------------------------------------
\* The system status
\* ------------------------------------------------------------------

\* The turns of the handlers that only query: GET /api/health, GET
\* /api/config, and the two chat handlers with the returns of their awaits.
QueryEvents == {"health", "config", "before-rag", "with-rag", "retrieved", "generated"}
StatusVars == <<vectorstore, retriever, chatModel, isInitializing, initializationError>>

\* C27: a turn of the health, config, before-rag or with-rag handler leaves
\* vectorstore, retriever, chatModel, isInitializing and initializationError
\* as they were, whatever it answers; a turn that changes one of them is a
\* turn of the initialization.
C27_QueryHandlersKeepStatus ==
    [][ /\ (program = "Server" /\ last'.ev \in QueryEvents /\ last' # last)
              => UNCHANGED StatusVars
        /\ (program = "Server" /\ StatusVars' # StatusVars)
              => last'.ev \in {"listen", "initialize", "connTest", "load", "store"} ]_vars

\* The chat model failed in a with-rag request that was answered 500 while
\* the system was ready.
C27_Witness ==
    /\ last.ev = "generated"
    /\ last.status = 500
    /\ last.r.op = "with-rag"
    /\ vectorstore # NULL
    /\ initializationError = NoError

\* ------------------------------------------------------------------
\* Failures and the log
\* ------------------------------------------------------------------

\* The entries a call has written to the log.
LoggedBy(id) == {i \in 1..Len(call.log) : call.log[i].call = id}

\* C29: a function that caught an exception and reports it, as an error
\* result or by throwing it again, has written a warning or an error to the
\* log by then.
C29_NoSilentFailure ==
    call.fn = "Neo4jUtils" =>
        \A id \in 1..Len(call.calls) :
            (/\ call.calls[id].pc = "returned"
             /\ call.calls[id].caught
             /\ call.calls[id].result \in {"failure", "rejected"}) =>
                \E i \in LoggedBy(id) : call.log[i].level \in {"warn", "error"}

\* ------------------------------------------------------------------
\* POST /api/initialize
\* ------------------------------------------------------------------

\* C30: a POST /api/initialize that is answered 200 is answered while the
\* vector store and the retriever are set, and one whose run failed is
\* answered 500 with the message of the failure.
C30_SuccessOnlyWhenReady ==
    /\ (last.r.op = "initialize" /\ last.status = 200) =>
          /\ vectorstore # NULL
          /\ retriever # NULL
    /\ (last.r.op = "initialize" /\ last.init = "rejected") =>
          /\ last.status = 500
          /\ last.msg = initializationError

\* C30 amended: a POST /api/initialize that is answered 200 is answered
\* while the vector store and the retriever are set, or is the request the
\* guard turned away while another run is in progress, which is answered
\* 200 at once; and one whose run failed is answered 500 with the message of
\* the failure.
C30_SuccessWhenReadyOrRunning ==
    /\ (last.r.op = "initialize" /\ last.status = 200) =>
          \/ /\ vectorstore # NULL
             /\ retriever # NULL
          \/ /\ last.init = "skipped"
             /\ isInitializing
             /\ RunsInProgress # {}
    /\ (last.r.op = "initialize" /\ last.init = "rejected") =>
          /\ last.status = 500
          /\ last.msg = initializationError

\* A request arrived during the run of another and was answered 200 at once,
\* nothing being ready.
C30_Witness ==
    /\ last.ev = "initialize"
    /\ last.init = "skipped"
    /\ last.status = 200
    /\ vectorstore = NULL
    /\ retriever = NULL
    /\ \E c \in Requests : req[c].op = "initialize" /\ req[c].pc = "loading"

\* ------------------------------------------------------------------
\* parseThinkingResponse: the introductory phrases
\* ------------------------------------------------------------------

\* The text has no tagged block, begins with one of the three phrases and
\* has a blank line after it.
BeginsWithPhrase(text) ==
    /\ ~HasBlock(text)
    /\ text # <<>>
    /\ text[1] \in {Intro1, Intro2, Intro3}
    /\ BlankLines(text) # {}

\* C31: of a text that begins with one of the phrases, what stands before
\* the first blank line is the thinking, and what follows that blank line
\* the response, only when it has more than 50 characters; with 50
\* characters or fewer the thinking is null and the response is the whole
\* trimmed text.
C31_PhraseSplitsOnlyWhenLong ==
    (Parsed1 /\ BeginsWithPhrase(call.rawResponse)) =>
        LET text == call.rawResponse
            b == Least(BlankLines(text))
            portion == SubSeq(text, 1, b - 1)
        IN  IF Length(portion) > 50
            THEN call.first = [thinking |-> JsText(Stripped(portion)),
                               response |-> Stripped(SubSeq(text, b + 1, Len(text))),
                               hasThinking |-> TRUE]
            ELSE call.first = [thinking |-> NullText, response |-> Stripped(text),
                               hasThinking |-> FALSE]

\* A portion of 51 characters is split off from the answer that follows it.
C31_Witness ==
    /\ Parsed1
    /\ call.rawResponse = <<Intro1, LongWord, BlankLine, Word>>
    /\ call.first = [thinking |-> JsText(<<Intro1, LongWord>>), response |-> <<Word>>,
                     hasThinking |-> TRUE]

\* ------------------------------------------------------------------
\* createThinkingPrompt
\* ------------------------------------------------------------------

Prompted == call.fn = "createThinkingPrompt" /\ call.stage = "prompted"

\* The values of enableThinking that JavaScript takes for false.
FalsyFlags == {Bool("false"), JsNull, Num("0"), Str("")}

\* C32: the prompt of a chat request is its base prompt when the request
\* says enableThinking false, the base prompt followed by the suffix when it
\* says true or says nothing; in general the suffix is there exactly when
\* what the request says is not one of the values that stand for false.
C32_SuffixIffThinking ==
    Prompted =>
        /\ call.body = Bool("false") => call.promptTemplate = call.basePrompt
        /\ call.body \in {Bool("true"), Undefined} =>
              call.promptTemplate = Append(call.basePrompt, ThinkingSuffix)
        /\ call.promptTemplate =
              (IF call.body \in FalsyFlags THEN call.basePrompt
               ELSE Append(call.basePrompt, ThinkingSuffix))

\* A before-rag request without enableThinking gets the suffix.
C32_Witness ==
    /\ Prompted
    /\ call.handler = "before-rag"
    /\ call.body = Undefined
    /\ call.promptTemplate = <<BeforeRagPrompt, ThinkingSuffix>>

\* ------------------------------------------------------------------
\* The merged settings map: its values
\* ------------------------------------------------------------------

PrimitiveTypes == {"string", "number", "boolean"}

\* Every value a file that parses holds, at its top level and in its module
\* section, is a string, a number or a boolean.
PrimitiveFile(f) ==
    f.status = "ok" =>
        /\ \A k \in DOMAIN f.top : f.top[k].t \in PrimitiveTypes
        /\ \A k \in DOMAIN f.section : f.section[k].t \in PrimitiveTypes
PrimitiveFiles ==
    /\ \A l \in 1..Len(files.parents) : PrimitiveFile(files.parents[l])
    /\ PrimitiveFile(files.staticSettings)
    /\ PrimitiveFile(files.configsConfig)

\* C33: when the files hold only strings, numbers and booleans at their top
\* level and in their module sections, every value of the loaded settings
\* map is a string, a number or a boolean.
C33_MergedMapIsFlat ==
    (program = "ConfigLoader" /\ cfgPhase = "loaded" /\ PrimitiveFiles) =>
        \A k \in DOMAIN config : config[k].t \in PrimitiveTypes

\* ------------------------------------------------------------------
\* The safe settings and a secret
\* ------------------------------------------------------------------

\* C34: two sets of sources that differ only in the value they give a
\* sensitive key, at the top level of a file, in the environment or in the
\* module section of a parent file, have the same getSafeConfig().
C34_SafeConfigHidesSecret ==
    (call.fn = "getSafeConfig" /\ call.stage = "served") =>
        call.safe[1] = call.safe[2]

\* ------------------------------------------------------------------
\* The health flags
\* ------------------------------------------------------------------

\* C35: the vector store is never set while isInitializing is true: no
\* handler sees both, a run starts only while the vector store is not set,
\* and the turn that sets the vector store resets the flag.
C35_NotReadyAndInitializing ==
    /\ ~(vectorstore # NULL /\ isInitializing)
    /\ last.ev \in {"health", "initialize", "before-rag", "with-rag"} =>
          ~(last.r.entry.vectorstore # NULL /\ last.r.entry.isInitializing)
    /\ last.init = "started" => last.r.entry.vectorstore = NULL
    /\ (last.ev = "store" /\ last.ok) => (vectorstore # NULL /\ ~isInitializing)

\* GET /api/health is answered ragInitialized true, isInitializing false
\* after a run that had set the flag.
C35_Witness ==
    /\ last.ev = "health"
    /\ last.r.entry.vectorstore # NULL
    /\ ~last.r.entry.isInitializing
    /\ populated = 1

\* C36: the vector store is set exactly when the retriever is, so a
\* with-rag request that carries a question and is handled while the vector
\* store is set is not answered 503.
C36_StoreAndRetrieverTogether ==
    /\ (vectorstore # NULL) <=> (retriever # NULL)
    /\ last.ev \in {"health", "initialize", "before-rag", "with-rag"} =>
          ((last.r.entry.vectorstore # NULL) <=> (last.r.entry.retriever # NULL))
    /\ (/\ last.ev = "with-rag"
        /\ last.r.entry.vectorstore # NULL
        /\ Truthy(last.r.field)) => last.status # 503

\* A with-rag request with a question, handled while the vector store is
\* set, went on to the retriever.
C36_Witness ==
    /\ last.ev = "with-rag"
    /\ last.r.entry.vectorstore # NULL
    /\ last.r.field = "text"
    /\ last.status = 0
    /\ last.r.retrieverCalls = 1

\* ------------------------------------------------------------------
\* The order of the parent files
\* ------------------------------------------------------------------

\* C37: when the config.json files of two ancestor directories define the
\* key, and no file of ../configs and no environment variable defines it,
\* the resolved value is that of the file farther from the module, among at
\* most five levels up to the filesystem root.
C37_FartherAncestorWins ==
    (/\ program = "ConfigLoader"
     /\ cfgOut.fresh
     /\ \E l1, l2 \in Visited :
            l1 < l2 /\ ParentDefinesAt(l1, cfgKey) /\ ParentDefinesAt(l2, cfgKey)
     /\ ~EnvDefines(cfgKey)
     /\ cfgKey \notin DOMAIN files.staticSettings.top
     /\ cfgKey \notin DOMAIN files.configsConfig.top)
        => Lookup(config, cfgKey) = ParentValue(cfgKey)

\* ------------------------------------------------------------------
\* The settings a running server uses
\* ------------------------------------------------------------------

\* The value the settings map had for the key when Server.js was loaded.
AtStart(key) == Get(call.atStart, key, Undefined)

\* C38: every initialization attempt uses, and GET /api/health reports, the
\* model host, port and identifier and the Neo4j URI and credentials that
\* were resolved when the server started, whatever POST /api/config/reload
\* has put in the settings map since: the clients an attempt builds in its
\* first turn, the options it passes to the store after its last load, and
\* the config of a health answer all hold the values of the start.
C38_ConnectionSettingsFixed ==
    call.fn = "settings" =>
       /\ last.init = "started" =>
             last.r.options =
                 [kind |-> "clients",
                  baseUrl |-> <<"http://", AtStart("OLLAMA_HOST").s, ":",
                                AtStart("OLLAMA_PORT").s>>,
                  model |-> AtStart("DEFAULT_MODEL")]
       /\ (last.ev = "load" /\ last.r.storeCalled) =>
             last.r.options =
                 [kind |-> "store",
                  url |-> AtStart("NEO4J_URI"),
                  username |-> AtStart("NEO4J_USERNAME"),
                  password |-> AtStart("NEO4J_PASSWORD")]
       /\ last.ev = "health" =>
             last.r.options =
                 [kind |-> "health",
                  ollamaHost |-> AtStart("OLLAMA_HOST"),
                  ollamaPort |-> AtStart("OLLAMA_PORT"),
                  model |-> AtStart("DEFAULT_MODEL"),
                  neo4jUri |-> HideCredentials(AtStart("NEO4J_URI"))]

\* After a reload that changed the key in the settings map, an
\* initialization attempt hands the store the value of the start.
C38_Witness ==
    /\ call.fn = "settings"
    /\ last.ev = "load"
    /\ last.r.storeCalled
    /\ cfgKey = "NEO4J_PASSWORD"
    /\ config[cfgKey] = Str("reloaded")
    /\ last.r.options.password = Str("static_settings.JSON")

\* ------------------------------------------------------------------
\* The 'Without RAG' panel
\* ------------------------------------------------------------------

\* C39: while a before-rag request is in flight loading.beforeRag is true,
\* and once none is in flight the panel shows the response to the topic
\* submitted last.
C39_LatestResponseShown ==
    call.fn = "App" =>
        /\ call.inFlight # {} => call.loading
        /\ (call.inFlight = {} /\ call.submitted > 0) =>
              call.response.topic = call.lastTopic

====
